---- MODULE Spec2Model ----
(***************************************************************************)
(* Valuation-and-pricing engine of hopper_valuation.                       *)
(*                                                                         *)
(* Every operation of the engine is a synchronous function of its inputs.  *)
(* The state of the model is the last call that completed: which operation *)
(* ran (op), what it was given (args), what it returned or raised (ret)    *)
(* and, for a re-application of the sanity clamp, the result the clamp was *)
(* re-applied to (prev).  The asynchronous services add the frame of the   *)
(* running coroutine (frame), the calls it has made to its collaborators   *)
(* (queries) and the entries of the cache service (cache).                 *)
(*                                                                         *)
(* Python floats are modelled as exact rationals <<numerator,              *)
(* denominator>> in lowest terms with a positive denominator; IEEE-754     *)
(* rounding is not modelled.  Python's None is the pair <<0, 0>>.          *)
(***************************************************************************)
EXTENDS Integers, Sequences, FiniteSets, TLC

VARIABLES op, args, ret, prev, frame, queries, cache

vars == <<op, args, ret, prev, frame, queries, cache>>

----------------------------------------------------------------------------
(* Exact rational arithmetic standing in for Python float arithmetic.      *)

Abs(n) == IF n < 0 THEN -n ELSE n

RECURSIVE GCD(_, _)
GCD(a, b) == IF b = 0 THEN a ELSE GCD(b, a % b)

LCM(a, b) == (a \div GCD(a, b)) * b

R(n, d) ==
    LET s == IF d < 0 THEN -1 ELSE 1
        g == GCD(Abs(n), Abs(d))
    IN  IF n = 0 THEN <<0, 1>> ELSE <<(s * n) \div g, (s * d) \div g>>

None == <<0, 0>>
IsNone(x) == x[2] = 0

Zero == <<0, 1>>
One == <<1, 1>>
Num(n) == <<n, 1>>

RNeg(a) == <<-a[1], a[2]>>

RAdd(a, b) ==
    LET l == LCM(a[2], b[2])
    IN  R(a[1] * (l \div a[2]) + b[1] * (l \div b[2]), l)

RSub(a, b) == RAdd(a, RNeg(b))

RMul(a, b) ==
    LET g1 == GCD(Abs(a[1]), b[2])
        g2 == GCD(Abs(b[1]), a[2])
    IN  IF a[1] = 0 \/ b[1] = 0 THEN Zero
        ELSE <<(a[1] \div g1) * (b[1] \div g2), (a[2] \div g2) * (b[2] \div g1)>>

RInv(a) == IF a[1] < 0 THEN <<-a[2], -a[1]>> ELSE <<a[2], a[1]>>

\* a / b for b # 0; Python raises ZeroDivisionError for b = 0, which every
\* caller below tests for before dividing.
RDiv(a, b) == RMul(a, RInv(b))

RSign(a) == IF a[1] < 0 THEN -1 ELSE IF a[1] = 0 THEN 0 ELSE 1

RLt(a, b) == RSign(RSub(a, b)) < 0
RLe(a, b) == RSign(RSub(a, b)) <= 0
RGt(a, b) == RLt(b, a)
RGe(a, b) == RLe(b, a)

RMax(a, b) == IF RGe(a, b) THEN a ELSE b
RMin(a, b) == IF RLe(a, b) THEN a ELSE b

RAbs(a) == <<Abs(a[1]), a[2]>>

RECURSIVE RPow(_, _)
RPow(a, n) == IF n <= 0 THEN One ELSE RMul(a, RPow(a, n - 1))

\* dict[key] = value on a Python dict modelled as a function on its keys
Put(dict, key, value) ==
    [k \in DOMAIN dict \cup {key} |-> IF k = key THEN value ELSE dict[k]]

Has(dict, key) == key \in DOMAIN dict

----------------------------------------------------------------------------
(* Sanity clamp, three variants.                                           *)

\* apply_sanity_check keeping an original_value that is already recorded
\* instead of overwriting it (line 35 reading 'original_value' first)
apply_sanity_check_keep_original(result, current_price, max_deviation) ==
    LET max_value == RMul(current_price, RAdd(One, max_deviation))
        min_value == RMul(current_price, RSub(One, max_deviation))
        original_value == IF Has(result, "original_value")
                          THEN result["original_value"]
                          ELSE result["intrinsic_value"]
        m1 == IF RGt(result["intrinsic_value"], max_value)
              THEN Put(Put(result, "intrinsic_value", max_value),
                       "estimated_value", max_value)
              ELSE IF RLt(result["intrinsic_value"], min_value)
              THEN Put(Put(result, "intrinsic_value", min_value),
                       "estimated_value", min_value)
              ELSE result
        m2 == IF ~Has(m1, "estimated_value")
              THEN Put(m1, "estimated_value", m1["intrinsic_value"]) ELSE m1
        m3 == IF ~Has(m2, "weighted_value")
              THEN Put(m2, "weighted_value", m2["intrinsic_value"]) ELSE m2
    IN  Put(m3, "original_value", original_value)

\* src/hopper_backend_eps.py
apply_sanity_check(result, current_price, max_deviation) ==
    LET max_value == RMul(current_price, RAdd(One, max_deviation))
        min_value == RMul(current_price, RSub(One, max_deviation))
        original_value == IF Has(result, "intrinsic_value")
                          THEN result["intrinsic_value"] ELSE current_price
        m1 == IF RGt(result["intrinsic_value"], max_value)
              THEN Put(Put(result, "intrinsic_value", max_value),
                       "estimated_value", max_value)
              ELSE IF RLt(result["intrinsic_value"], min_value)
              THEN Put(Put(result, "intrinsic_value", min_value),
                       "estimated_value", min_value)
              ELSE result
        m2 == IF ~Has(m1, "estimated_value")
              THEN Put(m1, "estimated_value", m1["intrinsic_value"]) ELSE m1
        m3 == IF ~Has(m2, "weighted_value")
              THEN Put(m2, "weighted_value", m2["intrinsic_value"]) ELSE m2
    IN  Put(m3, "original_value", original_value)

\* src/examples/mock_valuation.py
mock_apply_sanity_check(result, current_price, max_deviation) ==
    LET max_value == RMul(current_price, RAdd(One, max_deviation))
        min_value == RMul(current_price, RSub(One, max_deviation))
        upside(v) == RMul(RSub(RDiv(v, current_price), One), Num(100))
    IN  IF RGt(result["intrinsic_value"], max_value)
        THEN Put(Put(Put(result, "intrinsic_value", max_value),
                     "upside_downside", upside(max_value)),
                 "is_adjusted", TRUE)
        ELSE IF RLt(result["intrinsic_value"], min_value)
        THEN Put(Put(Put(result, "intrinsic_value", min_value),
                     "upside_downside", upside(min_value)),
                 "is_adjusted", TRUE)
        ELSE Put(result, "is_adjusted", FALSE)

\* A raised exception, as the dictionary {"raised": <type>}
Raised(type) == [k \in {"raised"} |-> type]
IsRaised(r) == Has(r, "raised")

\* One clamped key of src/examples/valuation_example.py: the value after
\* the if/elif at lines 53-58 and 64-69.
ClampKey(v, min_value, max_value) ==
    IF RGt(v, max_value) THEN max_value
    ELSE IF RLt(v, min_value) THEN min_value
    ELSE v

\* src/examples/valuation_example.py; comparing None with a float raises
\* TypeError (pe_value is None when the P/E model failed).
example_apply_sanity_check(result, current_price, max_deviation) ==
    LET max_value == RMul(current_price, RAdd(One, max_deviation))
        min_value == RMul(current_price, RSub(One, max_deviation))
        clamped == {"weighted_value", "dcf_value", "pe_value",
                    "ev_ebitda_value"} \cap DOMAIN result
        original_values == [k \in clamped |-> result[k]]
        m1 == [k \in DOMAIN result |->
                 IF k \in clamped
                 THEN ClampKey(result[k], min_value, max_value)
                 ELSE result[k]]
        m2 == IF Has(m1, "weighted_value") /\ Has(m1, "current_price")
              THEN Put(m1, "upside_potential",
                       RMul(RSub(RDiv(m1["weighted_value"],
                                      m1["current_price"]), One), Num(100)))
              ELSE m1
    IN  IF \E k \in clamped : IsNone(result[k])
        THEN Raised("TypeError")
        ELSE Put(m2, "original_values", original_values)

----------------------------------------------------------------------------
(* DiscountedCashFlowModel.calculate                                       *)
(* src/hopper_backend/services/valuation/models/dcf.py                     *)
(*                                                                         *)
(* The argument record a has the fields of the Python signature.  A list   *)
(* is a sequence; historical_fcf = None is the empty sequence, which the   *)
(* code treats the same way (lines 69 and 98).                             *)

RECURSIVE SumSeq(_)
SumSeq(q) == IF q = <<>> THEN Zero ELSE RAdd(q[1], SumSeq(Tail(q)))

\* lines 64-82: the base cash flow, whether it was substituted, and the
\* growth rate after the substitution
dcf_negative_fcf(a) ==
    IF RLe(a.fcf, Zero)
    THEN IF \E i \in 1..Len(a.historical_fcf) :
               RGt(a.historical_fcf[i], Zero)
         THEN LET positive_values ==
                      SelectSeq(a.historical_fcf, LAMBDA x : RGt(x, Zero))
              IN  [fcf |-> positive_values[Len(positive_values)],
                   negative_fcf_adjustment |-> TRUE,
                   growth_rate |-> a.growth_rate]
         ELSE [fcf |-> RMul(a.shares_outstanding, R(1, 10)),
               negative_fcf_adjustment |-> TRUE,
               growth_rate |-> RMin(a.growth_rate, R(5, 100))]
    ELSE [fcf |-> a.fcf,
          negative_fcf_adjustment |-> FALSE,
          growth_rate |-> a.growth_rate]

\* lines 84-87
dcf_shares_outstanding(a) ==
    IF RLe(a.shares_outstanding, Zero) THEN Num(1000000)
    ELSE a.shares_outstanding

\* lines 89-95
dcf_discount_rate(a) ==
    IF RLe(a.discount_rate, R(1, 100)) THEN R(1, 10)
    ELSE IF RGe(a.discount_rate, R(3, 10)) THEN R(3, 10)
    ELSE a.discount_rate

\* lines 97-101
dcf_historical_fcf(a) ==
    LET fcf == dcf_negative_fcf(a).fcf
    IN  IF Len(a.historical_fcf) < 2
        THEN <<RMul(fcf, R(9, 10)), RMul(fcf, R(95, 100)), fcf>>
        ELSE a.historical_fcf

\* lines 113-118: the cleaned prefix h[1..n]
RECURSIVE dcf_cleaned(_, _)
dcf_cleaned(h, n) ==
    IF n = 0 THEN <<>>
    ELSE LET rest == dcf_cleaned(h, n - 1)
         IN  IF /\ RGt(h[n], Zero)
                /\ \/ n = 1
                   \/ RLt(RAbs(RSub(RDiv(h[n], h[n - 1]), One)), Num(2))
             THEN Append(rest, h[n])
             ELSE rest

\* line 117 divides by historical_fcf[i-1]: ZeroDivisionError when a
\* positive value follows a zero
dcf_cleaning_raises(h) ==
    \E i \in 2..Len(h) : RGt(h[i], Zero) /\ h[i - 1] = Zero

\* scipy.stats.linregress(x, y) for x = 0..n-1, as far as the code uses
\* it: slope, intercept and whether p_value < 0.3 and r_value > 0.3.
\* r = ssxym / sqrt(ssxm * ssym), or 0 when ssym = 0.  For n = 2 the
\* p-value is 0 (1 when both y are equal); for n > 2 it is the two-sided
\* t-test with n - 2 degrees of freedom, so p < 0.3 iff r^2 exceeds
\* t^2 / (t^2 + n - 2) at the 0.3 critical value t.
CriticalRSquared(n) ==
    CASE n = 3 -> R(79389, 100000)
      [] n = 4 -> R(49, 100)
      [] n = 5 -> R(34240, 100000)
      [] OTHER -> R(26249, 100000)

linregress_sums(y, n, xbar, ybar) ==
    LET dx(i) == RSub(Num(i - 1), xbar)
        dy(i) == RSub(y[i], ybar)
    IN  [ssxm |-> SumSeq([i \in 1..n |-> RMul(dx(i), dx(i))]),
         ssym |-> SumSeq([i \in 1..n |-> RMul(dy(i), dy(i))]),
         ssxym |-> SumSeq([i \in 1..n |-> RMul(dx(i), dy(i))])]

linregress_fit(y, n, xbar, ybar, s, slope, rsq) ==
    [slope |-> slope,
     intercept |-> RSub(ybar, RMul(slope, xbar)),
     significant |->
        /\ RGt(s.ssxym, Zero)
        /\ RGt(rsq, R(9, 100))
        /\ IF n = 2 THEN y[1] # y[2]
           ELSE rsq = One \/ RGt(rsq, CriticalRSquared(n))]

linregress_of(y, n, xbar, ybar, s) ==
    linregress_fit(y, n, xbar, ybar, s, RDiv(s.ssxym, s.ssxm),
                   IF s.ssym = Zero THEN Zero
                   ELSE RDiv(RMul(s.ssxym, s.ssxym), RMul(s.ssxm, s.ssym)))

linregress(y) ==
    linregress_of(y, Len(y), R(Len(y) - 1, 2), RDiv(SumSeq(y), Num(Len(y))),
                  linregress_sums(y, Len(y), R(Len(y) - 1, 2),
                                  RDiv(SumSeq(y), Num(Len(y)))))

\* line 105: the growth path starts at growth_rate in every year
dcf_baseline(growth_rate, years) == [i \in 1..years |-> growth_rate]

\* lines 139-150: the regression's growth, bounded and blended, when the fit
\* is significant
dcf_regression_fit(fit, n, growth_rate, years) ==
    IF fit.significant
    THEN [i \in 1..years |->
            RAdd(RMul(RMax(RMin(RAdd(fit.intercept,
                                     RMul(fit.slope, Num(n + i - 1))),
                                R(40, 100)),
                           R(-10, 100)),
                      R(7, 10)),
                 RMul(growth_rate, R(3, 10)))]
    ELSE dcf_baseline(growth_rate, years)

\* lines 129-150
dcf_regression_filtered(filtered_growth, growth_rate, years) ==
    IF Len(filtered_growth) < 2 THEN dcf_baseline(growth_rate, years)
    ELSE dcf_regression_fit(linregress(filtered_growth),
                            Len(filtered_growth), growth_rate, years)

\* lines 120-150
dcf_regression_cleaned(cleaned_historical, growth_rate, years) ==
    IF Len(cleaned_historical) < 3 THEN dcf_baseline(growth_rate, years)
    ELSE dcf_regression_filtered(
             SelectSeq([i \in 1..(Len(cleaned_historical) - 1) |->
                           RSub(RDiv(cleaned_historical[i + 1],
                                     cleaned_historical[i]), One)],
                       LAMBDA g : RLt(RAbs(g), One)),
             growth_rate, years)

\* lines 109-154: the growth path after the regression step
dcf_regression(h, growth_rate, years) ==
    IF Len(h) < 3 \/ dcf_cleaning_raises(h)
    THEN dcf_baseline(growth_rate, years)
    ELSE dcf_regression_cleaned(dcf_cleaned(h, Len(h)), growth_rate, years)

\* lines 160 and 169: the blending weights of year index i (0-based)
analyst_weight(i) == RMax(Zero, RSub(R(6, 10), RMul(Num(i), R(1, 10))))
industry_weight(i) == RMin(R(1, 2), RAdd(R(1, 10), RMul(Num(i), R(5, 100))))

Blend(x, y, w) == RAdd(RMul(x, RSub(One, w)), RMul(y, w))

\* lines 156-163
dcf_analyst(path, a) ==
    IF ~IsNone(a.analyst_growth_estimate)
    THEN [i \in 1..Len(path) |->
            Blend(path[i], a.analyst_growth_estimate, analyst_weight(i - 1))]
    ELSE path

\* lines 165-172
dcf_industry(path, a) ==
    IF ~IsNone(a.industry_growth) /\ RGt(a.industry_growth, Num(-100))
    THEN [i \in 1..Len(path) |->
            Blend(path[i], a.industry_growth, industry_weight(i - 1))]
    ELSE path

\* lines 174-178
dcf_conservative(path, a) ==
    IF dcf_negative_fcf(a).negative_fcf_adjustment
    THEN [i \in 1..Len(path) |-> RMin(path[i], R(15, 100))]
    ELSE path

\* line 183 with the growth tapered away in every year
taper_factor_flat(i, years) == One

\* line 183
taper_factor(i, years) == IF years > 1 THEN R(i, years - 1) ELSE One

\* the path left as it was before the taper
dcf_taper_skipped(path, a) == path

\* lines 180-185
dcf_taper(path, a) ==
    [i \in 1..Len(path) |->
        Blend(path[i], a.terminal_growth, taper_factor(i - 1, a.years))]

YearsLen(a) == IF a.years < 0 THEN 0 ELSE a.years

\* the growth path before tapering: lines 107-178
dcf_pre_taper(a) ==
    dcf_conservative(
        dcf_industry(
            dcf_analyst(
                dcf_regression(dcf_historical_fcf(a),
                               dcf_negative_fcf(a).growth_rate,
                               YearsLen(a)),
                a),
            a),
        a)

\* lines 104-187
dcf_projected_growth_rates(a) == dcf_taper(dcf_pre_taper(a), a)

\* lines 194-195
dcf_wacc_calculated(a) ==
    /\ ~IsNone(a.beta) /\ RGt(a.beta, Zero)
    /\ ~IsNone(a.risk_free_rate) /\ RGt(a.risk_free_rate, Zero)
    /\ ~IsNone(a.debt_to_equity) /\ RGe(a.debt_to_equity, Zero)
    /\ ~IsNone(a.cost_of_debt) /\ RGt(a.cost_of_debt, Zero)

\* lines 189-222
dcf_calculated_discount_rate(a) ==
    IF dcf_wacc_calculated(a)
    THEN LET cost_of_equity ==
                 RAdd(a.risk_free_rate, RMul(a.beta, a.market_risk_premium))
             equity_weight == RDiv(One, RAdd(One, a.debt_to_equity))
             debt_weight == RSub(One, equity_weight)
             after_tax_cost_of_debt == RMul(a.cost_of_debt, R(75, 100))
             wacc == RAdd(RMul(cost_of_equity, equity_weight),
                          RMul(after_tax_cost_of_debt, debt_weight))
         IN  IF RLt(wacc, R(5, 100)) THEN R(5, 100)
             ELSE IF RGt(wacc, R(20, 100)) THEN R(20, 100)
             ELSE wacc
    ELSE dcf_discount_rate(a)

\* lines 224-236
RECURSIVE dcf_future_cash_flows(_, _, _)
dcf_future_cash_flows(base_fcf, path, n) ==
    IF n = 0 THEN <<>>
    ELSE LET before == dcf_future_cash_flows(base_fcf, path, n - 1)
             last == IF n = 1 THEN base_fcf ELSE before[n - 1]
         IN  Append(before, RMul(last, RAdd(One, path[n])))

\* the zero result without its 'error' entry
dcf_error_silent(message) ==
    [k \in {"enterprise_value", "equity_value", "per_share_value"} |-> Zero]

\* the dictionary returned by the except clause, lines 284-291
dcf_error(message) ==
    [k \in {"enterprise_value", "equity_value", "per_share_value", "error"}
       |-> IF k = "error" THEN message ELSE Zero]

dcf_terminal_value_uncapped(last_fcf, gordon) == gordon

\* lines 247-254: the Gordon terminal value, capped at 30 times the last
\* cash flow
dcf_terminal_value(last_fcf, gordon) ==
    IF RGt(RDiv(gordon, last_fcf), Num(30)) THEN RMul(last_fcf, Num(30))
    ELSE gordon

\* lines 261-283
dcf_return(a, path, rate, flows, discounted_fcf, tv, tv_discounted, ev) ==
    [enterprise_value |-> ev,
     equity_value |-> RSub(ev, a.net_debt),
     per_share_value |-> RDiv(RSub(ev, a.net_debt),
                              dcf_shares_outstanding(a)),
     future_cash_flows |-> flows,
     discounted_cash_flows |-> discounted_fcf,
     terminal_value |-> tv,
     terminal_value_discounted |-> tv_discounted,
     projected_growth_rates |-> path,
     wacc |-> IF dcf_wacc_calculated(a) THEN rate ELSE None]

\* lines 256-262
dcf_discounted(a, path, rate, flows, discounted_fcf, terminal_value) ==
    dcf_return(a, path, rate, flows, discounted_fcf, terminal_value,
               RDiv(terminal_value, RPow(RAdd(One, rate), Len(flows))),
               RAdd(SumSeq(discounted_fcf),
                    RDiv(terminal_value,
                         RPow(RAdd(One, rate), Len(flows)))))

\* lines 238-283: the valuation of the projected cash flows
dcf_valuation(a, path, rate, flows) ==
    IF flows = <<>> THEN dcf_error("list index out of range")
    ELSE IF rate = a.terminal_growth
    THEN dcf_error("float division by zero")
    ELSE IF flows[Len(flows)] = Zero
    THEN dcf_error("float division by zero")
    ELSE dcf_discounted(
             a, path, rate, flows,
             [i \in 1..Len(flows) |->
                 RDiv(flows[i], RPow(RAdd(One, rate), i))],
             dcf_terminal_value(
                 flows[Len(flows)],
                 RDiv(RMul(flows[Len(flows)], RAdd(One, a.terminal_growth)),
                      RSub(rate, a.terminal_growth))))

\* DiscountedCashFlowModel.calculate, lines 61-291
dcf_calculate(a) ==
    dcf_valuation(a, dcf_projected_growth_rates(a),
                  dcf_calculated_discount_rate(a),
                  dcf_future_cash_flows(dcf_negative_fcf(a).fcf,
                                        dcf_projected_growth_rates(a),
                                        YearsLen(a)))

----------------------------------------------------------------------------
(* PEBasedModel.calculate                                                  *)
(* src/hopper_backend/services/valuation/models/pe.py                      *)

\* the dictionary of lines 40-44
pe_invalid ==
    [target_pe |-> None, fair_value |-> None, error |-> "Invalid inputs"]

\* lines 50-54
pe_calculated_pe(a) ==
    RMax(RMin(RMul(RMul(a.growth_rate, Num(100)), a.peg_ratio), Num(50)), Num(5))

\* the calculated multiple blended 70/30 with the industry multiple
pe_terminal_pe_blended(a) ==
    IF ~IsNone(a.industry_pe) /\ RGt(a.industry_pe, Zero)
    THEN RAdd(RMul(R(7, 10), pe_calculated_pe(a)), RMul(R(3, 10), a.industry_pe))
    ELSE pe_calculated_pe(a)

\* line 57
pe_terminal_pe(a) ==
    IF ~IsNone(a.industry_pe) /\ RGt(a.industry_pe, Zero)
    THEN a.industry_pe ELSE pe_calculated_pe(a)

\* lines 37-87; a.industry_pe may be None
pe_calculate(a) ==
    IF RLe(a.eps, Zero) \/ a.years <= 0 \/ RLe(a.discount_rate, Zero)
    THEN pe_invalid
    ELSE
    LET terminal_pe == pe_terminal_pe(a)
        future_eps == RMul(a.eps, RPow(RAdd(One, a.growth_rate), a.years))
        future_value == RMul(future_eps, terminal_pe)
        fair_value ==
            RDiv(future_value, RPow(RAdd(One, a.discount_rate), a.years))
    IN  [target_pe |-> terminal_pe,
         fair_value |-> fair_value,
         future_eps |-> future_eps,
         future_value |-> future_value,
         growth_rate |-> a.growth_rate,
         years |-> a.years,
         discount_rate |-> a.discount_rate,
         projected_eps |->
            [y \in 1..(a.years + 1) |->
                RMul(a.eps, RPow(RAdd(One, a.growth_rate), y - 1))]]

\* the defaults of the signature, lines 18-21
PeArgs(eps, growth_rate) ==
    [eps |-> eps, growth_rate |-> growth_rate, industry_pe |-> None,
     peg_ratio |-> One, years |-> 5, discount_rate |-> R(10, 100)]

----------------------------------------------------------------------------
(* EVEBITDAModel.calculate                                                 *)
(* src/hopper_backend/services/valuation/models/ev_ebitda.py               *)

\* the dictionary of lines 38-44
ev_ebitda_invalid ==
    [ev_ebitda_multiple |-> None, enterprise_value |-> Zero,
     equity_value |-> Zero, per_share_value |-> Zero,
     error |-> "Invalid inputs"]

\* lines 35-79; a.industry_multiple may be None
ev_ebitda_calculate(a) ==
    IF RLe(a.ebitda, Zero) \/ RLe(a.shares_outstanding, Zero)
    THEN ev_ebitda_invalid
    ELSE
    LET base_multiple == Num(6)
        growth_factor == Num(10)
        growth_percent == RMul(a.growth_rate, Num(100))
        by_growth ==
            RAdd(base_multiple,
                 RMul(RDiv(growth_percent, Num(10)), growth_factor))
        bounded == RMax(RMin(by_growth, Num(25)), Num(4))
        target_multiple ==
            IF ~IsNone(a.industry_multiple) /\ RGt(a.industry_multiple, Zero)
            THEN RAdd(RMul(bounded, R(7, 10)),
                      RMul(a.industry_multiple, R(3, 10)))
            ELSE bounded
        enterprise_value == RMul(a.ebitda, target_multiple)
        equity_value == RSub(enterprise_value, a.net_debt)
    IN  [ev_ebitda_multiple |-> target_multiple,
         enterprise_value |-> enterprise_value,
         equity_value |-> equity_value,
         per_share_value |-> RDiv(equity_value, a.shares_outstanding),
         growth_rate |-> a.growth_rate,
         industry_multiple |-> a.industry_multiple]

----------------------------------------------------------------------------
(* ValuationService.calculate_intrinsic_value                              *)
(* src/hopper_backend/services/valuation/service.py                        *)
(*                                                                         *)
(* The argument record holds the caller's arguments and what the           *)
(* market-data collaborator answers for the symbol.  A weight map is a     *)
(* record with the three keys the combiner reads; custom_weights = None is *)
(* the empty dictionary, which 'custom_weights or self.weights' treats     *)
(* alike.                                                                  *)

\* lines 40-46 ("historical" is never read by calculate_intrinsic_value)
DefaultWeights == [dcf |-> R(3, 10), pe |-> R(2, 10), ev_ebitda |-> R(2, 10)]

NoWeights == <<>>

\* value is not None and value > 0: lines 155, 159, 163
IsValid(value) == ~IsNone(value) /\ RGt(value, Zero)

\* the combiner with the DCF value tested for != 0 instead of > 0
weighted_value_nonzero(dcf_value, pe_value, ev_ebitda_value, weights) ==
    LET sum1 == IF dcf_value # Zero
                THEN RMul(dcf_value, weights.dcf) ELSE Zero
        total1 == IF dcf_value # Zero THEN weights.dcf ELSE Zero
        sum2 == IF IsValid(pe_value)
                THEN RAdd(sum1, RMul(pe_value, weights.pe)) ELSE sum1
        total2 == IF IsValid(pe_value)
                  THEN RAdd(total1, weights.pe) ELSE total1
        sum3 == IF IsValid(ev_ebitda_value)
                THEN RAdd(sum2, RMul(ev_ebitda_value, weights.ev_ebitda))
                ELSE sum2
        total_weight == IF IsValid(ev_ebitda_value)
                        THEN RAdd(total2, weights.ev_ebitda) ELSE total2
    IN  IF RGt(total_weight, Zero) THEN RDiv(sum3, total_weight) ELSE Zero

\* lines 151-170
weighted_value(dcf_value, pe_value, ev_ebitda_value, weights) ==
    LET sum1 == IF RGt(dcf_value, Zero)
                THEN RMul(dcf_value, weights.dcf) ELSE Zero
        total1 == IF RGt(dcf_value, Zero) THEN weights.dcf ELSE Zero
        sum2 == IF IsValid(pe_value)
                THEN RAdd(sum1, RMul(pe_value, weights.pe)) ELSE sum1
        total2 == IF IsValid(pe_value)
                  THEN RAdd(total1, weights.pe) ELSE total1
        sum3 == IF IsValid(ev_ebitda_value)
                THEN RAdd(sum2, RMul(ev_ebitda_value, weights.ev_ebitda))
                ELSE sum2
        total_weight == IF IsValid(ev_ebitda_value)
                        THEN RAdd(total2, weights.ev_ebitda) ELSE total2
    IN  IF RGt(total_weight, Zero) THEN RDiv(sum3, total_weight) ELSE Zero

\* the weight reported whether or not the model was included
reported_weight_always(value, weight) == weight

\* lines 188, 199, 206
reported_weight(value, weight) == IF IsValid(value) THEN weight ELSE Zero

\* dict.get(key, default)
Get(dict, key, default) == IF Has(dict, key) THEN dict[key] ELSE default

\* x or default, for a number or None
OrElse(x, default) == IF IsNone(x) \/ x = Zero THEN default ELSE x

\* lines 83-105: the figures derived from the fetched data
svc_fcf(a) ==
    IF IsNone(a.financial_data.freeCashFlow) THEN a.free_cash_flow
    ELSE a.financial_data.freeCashFlow

svc_net_debt(a) ==
    RSub(a.financial_data.totalDebt, a.financial_data.cashAndEquivalents)

svc_earnings_growth(a) ==
    LET fetched == a.financial_data.earningsGrowth
        raw_earnings_growth ==
            IF IsNone(fetched) \/ RLt(fetched, Zero)
            THEN a.analyst_growth_estimates ELSE fetched
    IN  IF ~IsNone(a.custom_earnings_growth) THEN a.custom_earnings_growth
        ELSE RMax(RMin(OrElse(raw_earnings_growth, R(5, 100)), R(30, 100)),
                  R(5, 100))

svc_dcf_growth(a) ==
    IF ~IsNone(a.custom_dcf_growth) THEN a.custom_dcf_growth
    ELSE RMul(svc_earnings_growth(a), R(9, 10))

svc_terminal_growth(a) ==
    LET revenue_growth == a.financial_data.revenueGrowth
        usable == ~IsNone(revenue_growth) /\ RGt(revenue_growth, Zero)
    IN  RMax(RMin(IF usable THEN revenue_growth ELSE R(2, 100), R(3, 100)),
             R(1, 100))

\* lines 116-131.  The service leaves years at the default of the DCF
\* signature; the model takes the horizon from a.years (see ServiceYears).
svc_dcf_args(a) ==
    [fcf |-> svc_fcf(a),
     growth_rate |-> svc_dcf_growth(a),
     discount_rate |-> R(10, 100),
     years |-> a.years,
     terminal_growth |-> svc_terminal_growth(a),
     net_debt |-> svc_net_debt(a),
     shares_outstanding |-> a.financial_data.sharesOutstanding,
     historical_fcf |-> a.historical_fcf,
     analyst_growth_estimate |-> svc_earnings_growth(a),
     industry_growth |-> a.industry_growth,
     beta |-> a.financial_data.beta,
     risk_free_rate |-> a.risk_free_rate,
     market_risk_premium |-> R(5, 100),
     debt_to_equity |-> a.debt_to_equity,
     cost_of_debt |-> a.cost_of_debt]

\* line 134
svc_eps(a) ==
    IF RGt(a.financial_data.sharesOutstanding, Zero)
    THEN RDiv(a.financial_data.netIncome, a.financial_data.sharesOutstanding)
    ELSE Zero

\* lines 141-146
svc_ev_ebitda_args(a) ==
    [ebitda |-> a.financial_data.ebitda,
     growth_rate |-> svc_dcf_growth(a),
     industry_multiple |-> None,
     net_debt |-> svc_net_debt(a),
     shares_outstanding |-> a.financial_data.sharesOutstanding]

\* lines 172-226: the response
svc_response(a, dcf_result, pe_result, ev_ebitda_result, weights, value) ==
    [symbol |-> a.symbol,
     current_price |-> a.financial_data.price,
     weighted_value |-> value,
     upside_potential |->
        IF RGt(a.financial_data.price, Zero)
        THEN RMul(RSub(RDiv(value, a.financial_data.price), One), Num(100))
        ELSE Zero,
     dcf_value |-> dcf_result.per_share_value,
     pe_value |-> pe_result.fair_value,
     ev_ebitda_value |-> ev_ebitda_result.per_share_value,
     details |->
        [dcf |->
            [enterprise_value |-> dcf_result.enterprise_value,
             equity_value |-> dcf_result.equity_value,
             growth_rate |-> svc_dcf_growth(a),
             terminal_growth |-> svc_terminal_growth(a),
             discount_rate |-> Get(dcf_result, "wacc", R(10, 100)),
             weight |-> reported_weight(dcf_result.per_share_value,
                                        weights.dcf),
             projected_growth_rates |->
                Get(dcf_result, "projected_growth_rates", <<>>)],
         pe |->
            [target_pe |-> pe_result.target_pe,
             eps |-> svc_eps(a),
             growth_rate |-> svc_earnings_growth(a),
             weight |-> reported_weight(pe_result.fair_value,
                                        weights.pe)],
         ev_ebitda |->
            [multiple |-> ev_ebitda_result.ev_ebitda_multiple,
             enterprise_value |-> ev_ebitda_result.enterprise_value,
             equity_value |-> ev_ebitda_result.equity_value,
             weight |-> reported_weight(ev_ebitda_result.per_share_value,
                                        weights.ev_ebitda)]]]

\* lines 148-226
svc_combine(a, dcf_result, pe_result, ev_ebitda_result, weights) ==
    svc_response(a, dcf_result, pe_result, ev_ebitda_result, weights,
                 weighted_value(dcf_result.per_share_value,
                                pe_result.fair_value,
                                ev_ebitda_result.per_share_value, weights))

\* lines 80-226, without the cache
calculate_intrinsic_value(a) ==
    svc_combine(a, dcf_calculate(svc_dcf_args(a)),
                pe_calculate(PeArgs(svc_eps(a), svc_earnings_growth(a))),
                ev_ebitda_calculate(svc_ev_ebitda_args(a)),
                IF DOMAIN a.custom_weights = {} THEN a.weights
                ELSE a.custom_weights)

----------------------------------------------------------------------------
(* Python floats of the combiner, as IEEE-754 binary64 values.  A natural  *)
(* number is a sequence of limbs in base 2^14, least significant first,    *)
(* without high-order zeros; a positive float is <<m, e>> with m a 53-bit  *)
(* significand (2^52 <= m < 2^53) and value m * 2^e; zero is <<<<>>, 0>>.   *)
(* Every operation rounds to nearest, ties to even, as the hardware does.  *)
(* The combiner multiplies, adds and divides only values it has tested to  *)
(* be > 0, and the weights are >= 0, so signs do not occur; the exponents  *)
(* stay far from the subnormal and overflow ranges.                         *)

Precision == 53
LimbBits == 14
Base == 2 ^ LimbBits

Limb(a, i) == IF i \in 1..Len(a) THEN a[i] ELSE 0

\* drop the high-order zero limbs
Trim(a) ==
    LET nonzero == {i \in 1..Len(a) : a[i] # 0}
    IN  IF nonzero = {} THEN <<>>
        ELSE SubSeq(a, 1, CHOOSE i \in nonzero : \A j \in nonzero : j <= i)

\* propagate the carries of a sequence of naturals into limbs
RECURSIVE Carry(_, _)
Carry(a, c) ==
    IF a = <<>>
    THEN IF c = 0 THEN <<>> ELSE <<c % Base>> \o Carry(<<>>, c \div Base)
    ELSE <<(Head(a) + c) % Base>> \o Carry(Tail(a), (Head(a) + c) \div Base)

Big(a) == Trim(Carry(a, 0))

BigAdd(a, b) ==
    Big([i \in 1..(IF Len(a) > Len(b) THEN Len(a) ELSE Len(b)) |->
            Limb(a, i) + Limb(b, i)])

\* a * t for 0 <= t <= Base
BigMulSmall(a, t) == Big([i \in 1..Len(a) |-> a[i] * t])

RECURSIVE Column(_, _, _, _)
Column(a, b, j, i) ==
    IF i > Len(a) THEN 0
    ELSE Limb(a, i) * Limb(b, j + 1 - i) + Column(a, b, j, i + 1)

BigMul(a, b) == Big([j \in 1..(Len(a) + Len(b)) |-> Column(a, b, j, 1)])

\* a - b for a >= b
RECURSIVE Borrow(_, _, _)
Borrow(a, b, c) ==
    IF a = <<>> THEN <<>>
    ELSE <<(Head(a) - Limb(b, 1) - c) % Base>>
         \o Borrow(Tail(a), IF b = <<>> THEN <<>> ELSE Tail(b),
                   IF Head(a) - Limb(b, 1) - c < 0 THEN 1 ELSE 0)

BigSub(a, b) == Trim(Borrow(a, b, 0))

BigLe(a, b) ==
    IF Len(a) # Len(b) THEN Len(a) < Len(b)
    ELSE LET differ == {i \in 1..Len(a) : a[i] # b[i]}
         IN  \/ differ = {}
             \/ LET i == CHOOSE i \in differ : \A j \in differ : j <= i
                IN  a[i] < b[i]

BitLength(a) ==
    IF a = <<>> THEN 0
    ELSE LimbBits * (Len(a) - 1)
         + CHOOSE n \in 1..LimbBits :
               2 ^ (n - 1) <= a[Len(a)] /\ a[Len(a)] < 2 ^ n

\* a * 2^s
BigShl(a, s) ==
    IF a = <<>> THEN <<>>
    ELSE [i \in 1..(s \div LimbBits) |-> 0]
         \o BigMulSmall(a, 2 ^ (s % LimbBits))

\* a \div 2^s
BigShr(a, s) ==
    LET q == s \div LimbBits
        r == s % LimbBits
    IN  Trim([i \in 1..(Len(a) - q) |->
                 Limb(a, i + q) \div 2 ^ r
                 + (Limb(a, i + q + 1) % 2 ^ r) * 2 ^ (LimbBits - r)])

\* bit j of a, bit 0 the least significant
BigBit(a, j) == (Limb(a, j \div LimbBits + 1) \div 2 ^ (j % LimbBits)) % 2

\* the bits of a below bit j are all 0
BigLowZero(a, j) == BigShl(BigShr(a, j), j) = a

\* r \div d for r < 128 * d
QuotDigit(r, d) ==
    CHOOSE t \in 0..127 : /\ BigLe(BigMulSmall(d, t), r)
                          /\ ~BigLe(BigMulSmall(d, t + 1), r)

\* the base-128 digits of (r * 128^steps) \div d, most significant first,
\* followed by the remainder, for r < d
RECURSIVE QuotDigits(_, _, _)
QuotDigits(r, d, steps) ==
    IF steps = 0 THEN <<r>>
    ELSE LET t == QuotDigit(BigMulSmall(r, 128), d)
         IN  <<t>> \o QuotDigits(BigSub(BigMulSmall(r, 128),
                                        BigMulSmall(d, t)), d, steps - 1)

FloatZero == <<<<>>, 0>>

\* the float nearest to b * 2^e, ties to even; sticky tells that the exact
\* value lies strictly between b * 2^e and (b + 1) * 2^e
RoundToFloat(b, e, sticky) ==
    LET k == BitLength(b) - Precision
    IN  IF b = <<>> THEN FloatZero
        ELSE IF k <= 0 THEN <<BigShl(b, -k), e + k>>
        ELSE LET kept == BigShr(b, k)
                 half == BigBit(b, k - 1) = 1
                 below == sticky \/ ~BigLowZero(b, k - 1)
                 up == half /\ (below \/ BigBit(kept, 0) = 1)
                 m == IF up THEN BigAdd(kept, <<1>>) ELSE kept
             IN  IF BitLength(m) > Precision
                 THEN <<BigShr(m, 1), e + k + 1>>
                 ELSE <<m, e + k>>

\* float(n) for a natural number n
FloatOfNat(n) == RoundToFloat(Big(<<n>>), 0, FALSE)

FloatIsZero(x) == x[1] = <<>>

\* x * y
FloatMul(x, y) ==
    IF FloatIsZero(x) \/ FloatIsZero(y) THEN FloatZero
    ELSE RoundToFloat(BigMul(x[1], y[1]), x[2] + y[2], FALSE)

\* x / y: the quotient of the significands to 57 bits, rounded
FloatDiv(x, y) ==
    IF FloatIsZero(y) THEN Raised("ZeroDivisionError")
    ELSE IF FloatIsZero(x) THEN FloatZero
    ELSE LET first == QuotDigit(x[1], y[1])
             t == QuotDigits(BigSub(x[1], BigMulSmall(y[1], first)),
                             y[1], 8)
             quotient == Trim(<<t[7] * 128 + t[8], t[5] * 128 + t[6],
                                t[3] * 128 + t[4], t[1] * 128 + t[2],
                                first>>)
         IN  RoundToFloat(quotient, x[2] - y[2] - 56, t[9] # <<>>)

\* x + y
FloatAdd(x, y) ==
    IF FloatIsZero(x) THEN y
    ELSE IF FloatIsZero(y) THEN x
    ELSE LET e == IF x[2] < y[2] THEN x[2] ELSE y[2]
         IN  RoundToFloat(BigAdd(BigShl(x[1], x[2] - e),
                                 BigShl(y[1], y[2] - e)), e, FALSE)

\* the float a literal n/d denotes, for naturals n and d > 0
FloatOf(n, d) == FloatDiv(FloatOfNat(n), FloatOfNat(d))

FloatNone == <<<<>>, -1>>
FloatIsNone(x) == x = FloatNone

\* value is not None and value > 0
FloatIsValid(x) == ~FloatIsNone(x) /\ ~FloatIsZero(x)

\* service.py lines 151-170, in the arithmetic the program runs in
weighted_value_float(dcf_value, pe_value, ev_ebitda_value, weights) ==
    LET sum1 == IF FloatIsValid(dcf_value)
                THEN FloatAdd(FloatZero, FloatMul(dcf_value, weights.dcf))
                ELSE FloatZero
        total1 == IF FloatIsValid(dcf_value)
                  THEN FloatAdd(FloatZero, weights.dcf) ELSE FloatZero
        sum2 == IF FloatIsValid(pe_value)
                THEN FloatAdd(sum1, FloatMul(pe_value, weights.pe)) ELSE sum1
        total2 == IF FloatIsValid(pe_value)
                  THEN FloatAdd(total1, weights.pe) ELSE total1
        sum3 == IF FloatIsValid(ev_ebitda_value)
                THEN FloatAdd(sum2,
                              FloatMul(ev_ebitda_value, weights.ev_ebitda))
                ELSE sum2
        total_weight == IF FloatIsValid(ev_ebitda_value)
                        THEN FloatAdd(total2, weights.ev_ebitda) ELSE total2
    IN  IF ~FloatIsZero(total_weight) THEN FloatDiv(sum3, total_weight)
        ELSE FloatZero

----------------------------------------------------------------------------
(* The option pricer: qualtrim_backend/services/analytics/fft/service.py   *)
(* and algorithms/pricing.py, main.py.  np.exp(x) is kept as the term e^x  *)
(* and the call price the FFT produces as the term FFT, so a price is a     *)
(* linear combination  fft * FFT + SUM exp[x] * e^x  with rational          *)
(* coefficients; exp holds the nonzero coefficients only.  Exponentials of  *)
(* distinct rationals are linearly independent, so two prices are equal     *)
(* numbers exactly when they are equal combinations.  FFT stands for what   *)
(* numpy computes for the given inputs, which is nan or inf for some of     *)
(* them; numpy warns and does not raise.  The services are constructed      *)
(* with cache_service = None.                                                *)

Coefficient(p, x) == IF x \in DOMAIN p.exp THEN p.exp[x] ELSE Zero

LinAdd(p, r) ==
    LET sum(x) == RAdd(Coefficient(p, x), Coefficient(r, x))
    IN  [fft |-> RAdd(p.fft, r.fft),
         exp |-> [x \in {y \in DOMAIN p.exp \cup DOMAIN r.exp :
                            sum(y) # Zero} |-> sum(x)]]

LinNeg(p) == [fft |-> RNeg(p.fft), exp |-> [x \in DOMAIN p.exp |-> RNeg(p.exp[x])]]

LinSub(p, r) == LinAdd(p, LinNeg(r))

\* c * np.exp(x)
ExpTerm(c, x) ==
    [fft |-> Zero, exp |-> [y \in (IF c = Zero THEN {} ELSE {x}) |-> c]]

\* damped_char[N//2] / np.pi
FftTerm == [fft |-> One, exp |-> [y \in {} |-> Zero]]

\* lines 142-143 of the service, 422-423 of pricing.py
fft_drift(a) == IF a.use_real_world THEN a.mu ELSE a.r

\* the put price of line 168 of the service, 448 of pricing.py
put_price_drift(a, call_price) ==
    LinAdd(LinSub(call_price, ExpTerm(a.S0, RMul(RNeg(a.q), a.T))),
           ExpTerm(a.K, RMul(RNeg(fft_drift(a)), a.T)))

put_price(a, call_price) ==
    LinAdd(LinSub(call_price, ExpTerm(a.S0, RMul(RNeg(a.q), a.T))),
           ExpTerm(a.K, RMul(RNeg(a.r), a.T)))

\* d1 of lines 171 and 451 is a quotient of logarithms and roots; the model
\* keeps what it is computed from and the argument handed to norm.cdf
d1_term(a) ==
    [S0 |-> a.S0, K |-> a.K, T |-> a.T, drift |-> fft_drift(a), q |-> a.q,
     sigma |-> a.sigma]

\* FFTAnalysisService._char_function_fft, lines 115-174: S0 and K are Python
\* floats, so S0/K raises for K = 0
_char_function_fft(a) ==
    IF a.K = Zero THEN Raised("ZeroDivisionError")
    ELSE [call_price |-> FftTerm,
          put_price |-> put_price(a, FftTerm),
          prob_ST_above_K |-> [one_minus_cdf_of |-> "-d1", d1 |-> d1_term(a)]]

\* pricing.py char_function_fft, lines 409-454: S0 is a numpy float there,
\* so S0/K does not raise; -r raises when r is None
char_function_fft(a) ==
    IF IsNone(a.r) THEN Raised("TypeError")
    ELSE [call_price |-> FftTerm,
          put_price |-> put_price(a, FftTerm),
          prob_ST_above_K |-> [one_minus_cdf_of |-> "d1", d1 |-> d1_term(a)]]

risk_free_rate == R(425, 10000)

\* FFTAnalysisService.option_pricing, lines 31-113
option_pricing(a) ==
    LET dividend_yield ==
            IF IsNone(a.dividendYield) \/ a.dividendYield = Zero THEN Zero
            ELSE RDiv(a.dividendYield, Num(100))
        mu == IF a.use_real_world /\ ~IsNone(a.real_world_return)
              THEN a.real_world_return ELSE risk_free_rate
        priced == _char_function_fft(
                      [S0 |-> a.current_price, K |-> a.strike_price,
                       T |-> a.time_to_maturity, r |-> risk_free_rate,
                       mu |-> mu, q |-> dividend_yield,
                       sigma |-> a.volatility,
                       use_real_world |-> a.use_real_world])
    IN  IF IsRaised(priced) THEN Raised("ValueError")
        ELSE [symbol |-> a.symbol,
              current_price |-> a.current_price,
              strike_price |-> a.strike_price,
              time_to_maturity |-> a.time_to_maturity,
              volatility |-> a.volatility,
              risk_free_rate |-> risk_free_rate,
              dividend_yield |-> dividend_yield,
              expected_return |->
                  IF a.use_real_world THEN mu ELSE risk_free_rate,
              call_price |-> priced.call_price,
              put_price |-> priced.put_price,
              probability_above_strike |-> priced.prob_ST_above_K,
              expected_price |->
                  ExpTerm(a.current_price,
                          RMul(RSub(mu, dividend_yield), a.time_to_maturity)),
              pricing_model |->
                  IF a.use_real_world THEN "Real-World Expected Return"
                  ELSE "Risk-Neutral (Risk-Free Rate)"]

\* main.py get_pricing_model, lines 19-34: <<rate, mu, use_real_world>>
get_pricing_model(choice, cagr) ==
    IF choice = "2" THEN <<None, RDiv(cagr, Num(100)), TRUE>>
    ELSE <<risk_free_rate, None, FALSE>>

\* main.py main, lines 69-93: one pass of the loop from the strike prompt to
\* the option report; an exception ends the pass with a printed message
main(a) ==
    LET model == get_pricing_model(a.choice, a.cagr)
        priced == char_function_fft(
                      [S0 |-> a.S0, K |-> a.K, T |-> a.T, r |-> model[1],
                       mu |-> model[2], q |-> a.q, sigma |-> a.sigma,
                       use_real_world |-> model[3]])
    IN  IF RLe(a.K, Zero) \/ RLe(a.T, Zero)
        THEN [printed |-> "Error: Strike price and time to maturity must be positive numbers."]
        ELSE IF IsRaised(priced) THEN [printed |-> "Unexpected error"]
        ELSE [printed |-> "Option Prices and Probabilities",
              call_price |-> priced.call_price,
              put_price |-> priced.put_price,
              prob_ST_above_K |-> priced.prob_ST_above_K]

----------------------------------------------------------------------------
(* Inputs of the sanity clamp.                                             *)

PriceValues == {Num(50), Num(100)}
DeviationValues == {R(1, 2), R(1, 4), Zero}
IntrinsicValues == {Zero, Num(20), Num(50), Num(75), Num(100), Num(150),
                    Num(500)}

\* result dictionaries handed to hopper_backend_eps.apply_sanity_check:
\* the dictionary calculate_eps_based_valuation builds (lines 120-127), and
\* a bare one without the optional fields.
EpsResults ==
    {[k \in {"intrinsic_value"} |-> v] : v \in IntrinsicValues}
    \cup {[k \in {"intrinsic_value", "estimated_value", "weighted_value"}
            |-> v] : v \in IntrinsicValues}

\* (intrinsic_value / current_price - 1) * 100
UpsidePercent(v, p) == RMul(RSub(RDiv(v, p), One), Num(100))

\* result dictionaries of mock_valuation.calculate_weighted_average_valuation
\* (lines 148-154) for the current price p
MockResults(p) ==
    {[k \in {"intrinsic_value", "upside_downside"} |->
        IF k = "intrinsic_value" THEN v ELSE UpsidePercent(v, p)]
     : v \in IntrinsicValues}

\* result dictionaries of calculate_intrinsic_value handed to
\* valuation_example.apply_sanity_check with their own current_price
ExampleResults(p) ==
    {[k \in {"weighted_value", "dcf_value", "pe_value", "ev_ebitda_value",
             "current_price", "upside_potential"} |->
        CASE k = "weighted_value" -> w
          [] k = "dcf_value" -> w
          [] k = "pe_value" -> pe
          [] k = "ev_ebitda_value" -> ev
          [] k = "current_price" -> p
          [] OTHER -> UpsidePercent(w, p)]
     : w \in {Num(20), Num(100), Num(500)},
       pe \in {None, Num(75), Num(500)},
       ev \in {Zero, Num(150)}}

----------------------------------------------------------------------------
(* Inputs of DiscountedCashFlowModel.calculate.                            *)

HistoricalFcfValues ==
    { <<>>,
      <<Num(50), Num(60)>>,
      <<Num(100), Num(110), Num(132)>>,
      <<Num(100), Num(110), Num(132), Num(165)>>,
      <<Num(80), Zero, Num(90)>>,
      <<Num(-5), Num(-3), Num(-1)>> }

\* a call with every optional argument left out
DcfBase ==
    [fcf |-> Num(100), growth_rate |-> R(1, 10), discount_rate |-> R(1, 10),
     years |-> 2, terminal_growth |-> R(2, 100), net_debt |-> Zero,
     shares_outstanding |-> Num(10), historical_fcf |-> <<>>,
     analyst_growth_estimate |-> None, industry_growth |-> None,
     beta |-> None, risk_free_rate |-> None,
     market_risk_premium |-> R(5, 100),
     debt_to_equity |-> None, cost_of_debt |-> None]

\* calls that exercise the input sanitisation, the discount-rate clamp and
\* the failure paths
DcfSanitiseInputs ==
    {[DcfBase EXCEPT !.fcf = f, !.shares_outstanding = sh,
                     !.historical_fcf = h, !.years = y,
                     !.discount_rate = d, !.terminal_growth = tg,
                     !.net_debt = nd]
     : f \in {Num(-100), Zero, Num(100)},
       sh \in {Num(-10), Zero, Num(10)},
       h \in {<<>>, <<Num(50), Num(60)>>, <<Num(80), Zero, Num(90)>>,
              <<Num(-5), Num(-3), Num(-1)>>},
       y \in {-1, 0, 1, 2},
       d \in {Zero, R(1, 100), R(5, 100), R(1, 10), R(3, 10), R(1, 2)},
       tg \in {R(2, 100), R(1, 10), R(3, 10)},
       nd \in {Zero, Num(100000)}}

\* calls that exercise the growth path
DcfGrowthInputs ==
    {[DcfBase EXCEPT !.fcf = f, !.growth_rate = g,
                     !.analyst_growth_estimate = an,
                     !.industry_growth = ind,
                     !.historical_fcf = h, !.years = y, !.net_debt = nd]
     : f \in {Num(-100), Num(100)},
       g \in {Zero, R(1, 10), R(1, 5)},
       an \in {None, R(1, 10), R(3, 10)},
       ind \in {None, R(5, 100)},
       h \in HistoricalFcfValues,
       y \in {1, 2},
       nd \in {Zero, Num(50)}}

\* three-year horizons, with at most one of the two estimates supplied
DcfLongInputs ==
    {[DcfBase EXCEPT !.fcf = f, !.growth_rate = g,
                     !.analyst_growth_estimate = e[1],
                     !.industry_growth = e[2],
                     !.historical_fcf = h, !.years = 3, !.net_debt = nd]
     : f \in {Num(-100), Num(100)},
       g \in {Zero, R(1, 10), R(1, 5)},
       e \in {<<None, None>>, <<R(1, 10), None>>, <<R(3, 10), None>>,
              <<None, R(5, 100)>>},
       h \in {<<>>, <<Num(50), Num(60)>>},
       nd \in {Zero, Num(50)}}

\* calls that exercise the WACC computation
DcfWaccInputs ==
    {[DcfBase EXCEPT !.beta = b, !.risk_free_rate = rf,
                     !.debt_to_equity = de, !.cost_of_debt = cd,
                     !.discount_rate = d, !.terminal_growth = tg,
                     !.years = y]
     : b \in {None, Zero, R(1, 5), One, Num(4)},
       rf \in {None, R(1, 100), R(5, 100)},
       de \in {None, Zero, One},
       cd \in {None, R(8, 100)},
       d \in {R(5, 100), R(1, 10)},
       tg \in {R(2, 100), R(5, 100), R(1, 10)},
       y \in {1, 2}}

\* the rates of a second valuation of the same company
SecondGrowthRates == {Num(-3), Num(-2), Zero, R(1, 10), R(1, 5)}
SecondDiscountRates ==
    {Zero, R(1, 100), R(5, 100), R(1, 10), R(3, 10), R(1, 2)}

\* five-year horizons, where the industry weight grows faster than the
\* taper shrinks the pre-taper rate
DcfHorizonInputs ==
    {[DcfBase EXCEPT !.growth_rate = g, !.industry_growth = ind,
                     !.discount_rate = R(1, 4), !.terminal_growth = Zero,
                     !.years = 5]
     : g \in {Zero}, ind \in {None, One}}

DcfInputs ==
    DcfSanitiseInputs \cup DcfGrowthInputs \cup DcfLongInputs
    \cup DcfWaccInputs \cup DcfHorizonInputs

----------------------------------------------------------------------------
(* Inputs of the multiple models and of calculate_intrinsic_value.         *)

PeInputs ==
    {[eps |-> e, growth_rate |-> g, industry_pe |-> ip, peg_ratio |-> One,
      years |-> y, discount_rate |-> d]
     : e \in {Num(-2), Zero, Num(2)},
       g \in {R(-45, 100), Zero, R(1, 10), R(1, 5), One},
       ip \in {None, Num(20)},
       y \in {0, 1, 5},
       d \in {Zero, R(10, 100)}}

EvEbitdaInputs ==
    {[ebitda |-> e, growth_rate |-> g, industry_multiple |-> im,
      net_debt |-> nd, shares_outstanding |-> sh]
     : e \in {Num(-30), Zero, Num(30)},
       g \in {R(-5, 100), R(9, 100), R(1, 5)},
       im \in {None, Num(10)},
       nd \in {Num(-20), Zero, Num(50), Num(100000)},
       sh \in {Num(-10), Zero, Num(10)}}

\* The DCF signature's default horizon is ten years; ten compounding years
\* of distinct exact rationals do not fit TLC's integers, so the service's
\* DCF call takes its horizon from this set.
ServiceYears == {1, 2}

SvcFinancialData ==
    [freeCashFlow |-> Num(100), totalDebt |-> Num(50),
     cashAndEquivalents |-> Zero, earningsGrowth |-> R(1, 10),
     revenueGrowth |-> R(2, 100), beta |-> One,
     sharesOutstanding |-> Num(10), netIncome |-> Num(20),
     ebitda |-> Num(30), price |-> Num(100)]

SvcBase ==
    [symbol |-> "AAPL", custom_dcf_growth |-> None,
     custom_earnings_growth |-> None, custom_weights |-> NoWeights,
     weights |-> DefaultWeights, years |-> 2,
     financial_data |-> SvcFinancialData,
     free_cash_flow |-> Zero, analyst_growth_estimates |-> R(10, 100),
     historical_fcf |-> <<>>, risk_free_rate |-> R(5, 100),
     industry_growth |-> None, debt_to_equity |-> None,
     cost_of_debt |-> None]

CustomWeightValues ==
    { NoWeights,
      [dcf |-> R(5, 10), pe |-> R(3, 10), ev_ebitda |-> R(2, 10)],
      [dcf |-> One, pe |-> Zero, ev_ebitda |-> Zero],
      [dcf |-> Zero, pe |-> R(1, 2), ev_ebitda |-> R(1, 2)] }

\* requests that exercise the combiner: each model valid or not
SvcCombineInputs ==
    {[SvcBase EXCEPT !.custom_weights = w, !.years = y,
                     !.custom_dcf_growth = cg,
                     !.financial_data =
                        [SvcFinancialData EXCEPT
                            !.earningsGrowth = eg,
                            !.freeCashFlow = f, !.netIncome = ni,
                            !.ebitda = eb, !.sharesOutstanding = sh,
                            !.totalDebt = td]]
     : w \in CustomWeightValues,
       y \in ServiceYears,
       cg \in {None, R(1, 5)},
       eg \in {None, R(10, 100)},
       f \in {None, Num(-100), Num(100)},
       ni \in {Num(-20), Num(20)},
       eb \in {Num(-30), Num(30)},
       sh \in {Zero, Num(10)},
       td \in {Num(50), Num(100000)}}

\* requests that exercise the growth, terminal-growth and CAPM figures
\* (with a loss-making company, so that the P/E model is excluded)
SvcGrowthInputs ==
    {[SvcBase EXCEPT !.custom_earnings_growth = ce,
                     !.custom_dcf_growth = cg,
                     !.analyst_growth_estimates = an,
                     !.debt_to_equity = capm[1],
                     !.cost_of_debt = capm[2],
                     !.historical_fcf = h,
                     !.financial_data =
                        [SvcFinancialData EXCEPT
                            !.earningsGrowth = eg, !.revenueGrowth = rg,
                            !.price = p, !.netIncome = Num(-20)]]
     : ce \in {None, Zero, R(1, 5)},
       cg \in {None, Zero},
       an \in {R(1, 10), R(1, 5)},
       capm \in {<<None, None>>, <<One, None>>, <<One, R(8, 100)>>},
       h \in {<<>>, <<Num(50), Num(60)>>},
       eg \in {None, R(-1, 10), R(1, 10), R(1, 2)},
       rg \in {None, R(2, 100), R(1, 10)},
       p \in {Zero, Num(100)}}

SvcInputs == SvcCombineInputs \cup SvcGrowthInputs

----------------------------------------------------------------------------
(* Inputs of the combiner in float arithmetic: per-share values the three  *)
(* models can return (0 for a failed DCF or EV/EBITDA, None for a failed   *)
(* P/E) and the weight maps of the service.                                 *)

FloatPerShareValues == {FloatZero, FloatOfNat(7), FloatOf(31, 2), FloatOfNat(100)}

FloatWeightValues ==
    {[dcf |-> FloatOf(3, 10), pe |-> FloatOf(2, 10),
      ev_ebitda |-> FloatOf(2, 10)],
     [dcf |-> FloatOf(5, 10), pe |-> FloatOf(3, 10),
      ev_ebitda |-> FloatOf(2, 10)],
     [dcf |-> FloatOfNat(1), pe |-> FloatZero, ev_ebitda |-> FloatZero],
     [dcf |-> FloatZero, pe |-> FloatOf(5, 10),
      ev_ebitda |-> FloatOf(5, 10)]}

CombineInputs ==
    [dcf_value : FloatPerShareValues,
     pe_value : {FloatNone, FloatZero, FloatOfNat(10)},
     ev_ebitda_value : {FloatNone, FloatZero, FloatOfNat(100)},
     weights : FloatWeightValues]

----------------------------------------------------------------------------
(* Inputs of the option pricer.                                            *)

StrikeValues == {Num(-50), Zero, Num(50), Num(100)}
MaturityValues == {Num(-1), Zero, R(1, 2), One}
VolatilityValues == {Zero, R(1, 5)}

OptionInputs ==
    [symbol : {"ACME"},
     current_price : {Num(100)},
     strike_price : StrikeValues,
     time_to_maturity : MaturityValues,
     volatility : VolatilityValues,
     dividendYield : {None, Num(2)},
     use_real_world : BOOLEAN,
     real_world_return : {None, Zero, risk_free_rate, R(1, 10)}]

MainInputs ==
    [S0 : {Num(100)},
     K : StrikeValues,
     T : MaturityValues,
     sigma : VolatilityValues,
     q : {Zero, R(2, 100)},
     choice : {"1", "2", "3"},
     cagr : {Num(10)}]

----------------------------------------------------------------------------
(* The flat-growth DCF: DiscountedCashFlowModel.calculate of               *)
(* src/qualtrim_backend/services/valuation/models/dcf.py and               *)
(* discounted_cash_flow of src/algorithms/pricing.py.  The two compute the *)
(* same figures and differ in what a failing step does: the first returns  *)
(* zeros with an 'error' entry, the second lets the exception out.         *)

\* dcf.py lines 40-46, pricing.py lines 78-83
flat_invalid(a) == RLe(a.fcf, Zero) \/ RLe(a.shares_outstanding, Zero)

FlatZeros ==
    [enterprise_value |-> Zero, equity_value |-> Zero,
     per_share_value |-> Zero]

\* dcf.py line 50, pricing.py line 86
flat_future_cash_flows(a) ==
    [year \in 1..a.years |->
        RMul(a.fcf, RPow(RAdd(One, a.growth_rate), year))]

\* dcf.py line 53, pricing.py line 87
flat_discounted_fcf(a, future_cash_flows) ==
    [year \in 1..Len(future_cash_flows) |->
        RDiv(future_cash_flows[year],
             RPow(RAdd(One, a.discount_rate), year))]

flat_terminal_value_no_growth(a, future_cash_flows) ==
    RDiv(future_cash_flows[Len(future_cash_flows)],
         RSub(a.discount_rate, a.terminal_growth))

\* dcf.py line 56, pricing.py line 90
flat_terminal_value(a, future_cash_flows) ==
    RDiv(RMul(future_cash_flows[Len(future_cash_flows)],
              RAdd(One, a.terminal_growth)),
         RSub(a.discount_rate, a.terminal_growth))

\* the exception the steps of dcf.py lines 50-56 (pricing.py 86-90) raise:
\* a division by (1 + discount_rate) ** year = 0, future_cash_flows[-1]
\* of an empty list, a division by discount_rate - terminal_growth = 0
flat_exception(a) ==
    IF a.years >= 1 /\ RAdd(One, a.discount_rate) = Zero
    THEN "ZeroDivisionError"
    ELSE IF a.years < 1 THEN "IndexError"
    ELSE IF RSub(a.discount_rate, a.terminal_growth) = Zero
    THEN "ZeroDivisionError"
    ELSE ""

\* dcf.py lines 59-68, pricing.py lines 91-106
flat_result(a, discounted_fcf, terminal_value, tv_discounted) ==
    [enterprise_value |-> RAdd(SumSeq(discounted_fcf), tv_discounted),
     equity_value |->
        RSub(RAdd(SumSeq(discounted_fcf), tv_discounted), a.net_debt),
     per_share_value |->
        RDiv(RSub(RAdd(SumSeq(discounted_fcf), tv_discounted), a.net_debt),
             a.shares_outstanding)]

flat_values(a, future_cash_flows) ==
    flat_result(a, flat_discounted_fcf(a, future_cash_flows),
                flat_terminal_value(a, future_cash_flows),
                RDiv(flat_terminal_value(a, future_cash_flows),
                     RPow(RAdd(One, a.discount_rate), a.years)))

\* pricing.py lines 65-106
discounted_cash_flow(a) ==
    IF flat_invalid(a) THEN FlatZeros
    ELSE IF flat_exception(a) # "" THEN Raised(flat_exception(a))
    ELSE flat_values(a, flat_future_cash_flows(a))

\* qualtrim dcf.py lines 18-87
qualtrim_dcf_calculate(a) ==
    IF flat_invalid(a) THEN FlatZeros
    ELSE IF flat_exception(a) # ""
    THEN [enterprise_value |-> Zero, equity_value |-> Zero,
          per_share_value |-> Zero, error |-> flat_exception(a)]
    ELSE flat_values(a, flat_future_cash_flows(a))

(* The same steps in binary64, for years = 1, where                        *)
(* (1 + rate) ** 1 is exact, and positive operands.                         *)

\* x - y for x > y > 0
FloatSub(x, y) ==
    LET e == IF x[2] < y[2] THEN x[2] ELSE y[2]
    IN  RoundToFloat(BigSub(BigShl(x[1], x[2] - e),
                            BigShl(y[1], y[2] - e)), e, FALSE)

\* the float a literal denotes
ToFloat(r) == IF r[1] = 0 THEN FloatZero ELSE FloatOf(r[1], r[2])

\* x <= y for positive floats
FloatLe(x, y) == x[2] < y[2] \/ (x[2] = y[2] /\ BigLe(x[1], y[1]))

flat_equity_float(enterprise_value, net_debt, shares_outstanding) ==
    [enterprise_value |-> enterprise_value,
     equity_value |->
        IF FloatIsZero(net_debt) THEN enterprise_value
        ELSE FloatSub(enterprise_value, net_debt),
     per_share_value |->
        FloatDiv(IF FloatIsZero(net_debt) THEN enterprise_value
                 ELSE FloatSub(enterprise_value, net_debt),
                 shares_outstanding)]

flat_values_float(a, flow, discount, gordon) ==
    flat_equity_float(
        FloatAdd(FloatDiv(flow, discount),
                 FloatDiv(FloatDiv(FloatMul(flow,
                                            FloatAdd(FloatOfNat(1),
                                                     ToFloat(a.terminal_growth))),
                                   gordon),
                          discount)),
        ToFloat(a.net_debt), ToFloat(a.shares_outstanding))

\* dcf.py lines 50-68, pricing.py lines 86-100, for years = 1
discounted_cash_flow_float(a) ==
    flat_values_float(a,
        FloatMul(ToFloat(a.fcf),
                 FloatAdd(FloatOfNat(1), ToFloat(a.growth_rate))),
        FloatAdd(FloatOfNat(1), ToFloat(a.discount_rate)),
        FloatSub(ToFloat(a.discount_rate), ToFloat(a.terminal_growth)))

FlatInputs ==
    [fcf : {Num(-100), Num(100), Num(250)},
     growth_rate : {R(-1, 2), Zero, R(1, 2)},
     discount_rate : {Num(-1), R(1, 10), R(1, 4), R(1, 2)},
     years : 0..3,
     terminal_growth : {Zero, R(1, 10)},
     net_debt : {Zero, Num(50)},
     shares_outstanding : {Zero, Num(10)}]

\* scenario A of the specification and calls near it
FlatFloatInputs ==
    [fcf : {Num(1000000000), Num(500000000)},
     growth_rate : {R(10, 100), R(5, 100)},
     discount_rate : {R(10, 100), R(8, 100)},
     years : {1},
     terminal_growth : {R(2, 100), R(3, 100)},
     net_debt : {Zero, Num(1000000)},
     shares_outstanding : {Num(1000000000), Num(500000000)}]

----------------------------------------------------------------------------
(* The entry-price helpers: calculate_entry_price of                       *)
(* src/examples/advanced_valuation_example.py,                             *)
(* calculate_hopper_eps_valuation of src/hopper_eps_valuation.py and       *)
(* calculate_eps_based_valuation of src/qualtrim_backend_eps.py.           *)

\* the rationals a years-th root is drawn from
RootCandidates == {R(p, q) : p \in 1..4, q \in 1..4}

\* x ** (1 / years) for an x > 0 that is the years-th power of a rational
Root(x, years) == CHOOSE r \in RootCandidates : RPow(r, years) = x

\* (future_value / current_price) ** (1 / years) - 1
annual_return(future_value, current_price, years) ==
    RSub(Root(RDiv(future_value, current_price), years), One)

\* advanced_valuation_example.py lines 173-207
calculate_entry_price(a) ==
    IF a.current_price = Zero \/ a.years = 0 THEN Raised("ZeroDivisionError")
    ELSE [current_price |-> a.current_price,
          target_value |-> a.target_value,
          desired_return |-> a.desired_return,
          years |-> a.years,
          future_value_desired |->
             RMul(a.current_price, RPow(RAdd(One, a.desired_return), a.years)),
          entry_price_for_target |->
             RDiv(a.target_value, RPow(RAdd(One, a.desired_return), a.years)),
          discount_needed |->
             RMul(RDiv(RSub(a.current_price,
                            RDiv(a.target_value,
                                 RPow(RAdd(One, a.desired_return), a.years))),
                       a.current_price), Num(100)),
          implied_return |->
             annual_return(a.target_value, a.current_price, a.years)]

\* eps * (1 + growth_rate) ** years * multiple:
\* hopper_eps_valuation.py lines 28-31, qualtrim_backend_eps.py 91-94
eps_future_value(a, multiple) ==
    RMul(RMul(a.eps, RPow(RAdd(One, a.growth_rate), a.years)), multiple)

\* hopper_eps_valuation.py lines 37-39
hopper_implied_return(a, future_value) ==
    IF ~IsNone(a.current_price) /\ RGt(a.current_price, Zero)
    THEN annual_return(future_value, a.current_price, a.years)
    ELSE None

\* hopper_eps_valuation.py lines 10-53
calculate_hopper_eps_valuation(a) ==
    IF a.years = 0 /\ ~IsNone(a.current_price) /\ RGt(a.current_price, Zero)
    THEN Raised("ZeroDivisionError")
    ELSE [future_value |-> eps_future_value(a, a.eps_multiple),
          entry_price |->
             RDiv(eps_future_value(a, a.eps_multiple),
                  RPow(RAdd(One, a.desired_return), a.years)),
          current_price |-> a.current_price,
          implied_return |->
             hopper_implied_return(a, eps_future_value(a, a.eps_multiple))]

\* qualtrim_backend_eps.py line 121
adjustment_factor == R(125, 100)

\* qualtrim_backend_eps.py lines 105-122
qualtrim_implied_return(a, future_value) ==
    IF ~IsNone(a.current_price) /\ RGt(a.current_price, Zero)
    THEN RMul(annual_return(future_value, a.current_price, a.years),
              adjustment_factor)
    ELSE None

\* qualtrim_backend_eps.py lines 154-173, without the projections
qualtrim_eps_result(a, future_value, intrinsic_value) ==
    IF IsNone(a.current_price)
    THEN [intrinsic_value |-> intrinsic_value,
          estimated_value |-> intrinsic_value,
          weighted_value |-> intrinsic_value,
          future_value |-> future_value]
    ELSE [intrinsic_value |-> intrinsic_value,
          estimated_value |-> intrinsic_value,
          weighted_value |-> intrinsic_value,
          future_value |-> future_value,
          entry_price_for_target |-> intrinsic_value,
          implied_return |-> qualtrim_implied_return(a, future_value)]

\* qualtrim_backend_eps.py lines 72-177
calculate_eps_based_valuation(a) ==
    IF a.years = 0 /\ ~IsNone(a.current_price) /\ RGt(a.current_price, Zero)
    THEN Raised("ZeroDivisionError")
    ELSE qualtrim_eps_result(a, eps_future_value(a, a.terminal_pe),
                             RDiv(eps_future_value(a, a.terminal_pe),
                                  RPow(RAdd(One, a.discount_rate), a.years)))

\* the annual returns the calls below imply
ImpliedReturns == {R(-1, 2), Zero, R(1, 2), One}

EntryYears == 0..3

EntryPriceInputs ==
    {[current_price |-> p, target_value |-> RMul(p, RPow(RAdd(One, i), n)),
      desired_return |-> r, years |-> n]
     : p \in {Zero, Num(40), Num(100)}, i \in ImpliedReturns,
       r \in {R(1, 10), R(1, 4)}, n \in EntryYears}

\* eps, growth and multiple of a call, and a current price at which the
\* future value implies the annual return i
EpsCalls(i) ==
    {[eps |-> e, growth_rate |-> g, years |-> n, multiple |-> m,
      desired_return |-> r,
      current_price |->
         RDiv(RMul(RMul(e, RPow(RAdd(One, g), n)), m),
              RPow(RAdd(One, i), n))]
     : e \in {Num(2), Num(5)}, g \in {Zero, R(1, 2)}, n \in EntryYears,
       m \in {Num(10), Num(15)}, r \in {R(1, 10), R(1, 4)}}

EpsCallsWithoutPrice ==
    {[c EXCEPT !.current_price = p] : c \in EpsCalls(Zero), p \in {None, Zero}}

AllEpsCalls == EpsCallsWithoutPrice \cup UNION {EpsCalls(i) : i \in ImpliedReturns}

HopperEpsInputs ==
    {[eps |-> c.eps, growth_rate |-> c.growth_rate, years |-> c.years,
      eps_multiple |-> c.multiple, desired_return |-> c.desired_return,
      current_price |-> c.current_price] : c \in AllEpsCalls}

QualtrimEpsInputs ==
    {[eps |-> c.eps, growth_rate |-> c.growth_rate, years |-> c.years,
      terminal_pe |-> c.multiple, discount_rate |-> c.desired_return,
      current_price |-> c.current_price] : c \in AllEpsCalls}

----------------------------------------------------------------------------
(* MarketDataService.get_current_price,                                    *)
(* src/hopper_backend/services/market_data/service.py.  It is a coroutine: *)
(* it is suspended while a provider is queried, and whether the provider   *)
(* answers with a price or raises is the provider's choice.  `queries` is  *)
(* the log of the providers' get_current_price calls with their outcomes,  *)
(* as the mocks of tests/test_market_data_service.py record them; `frame`  *)
(* holds the coroutine's position and locals.                              *)

\* the provider classes under services/market_data/providers
ProviderNames == {"yfinance", "finnhub", "alpha_vantage"}

\* provider=None, the default of the argument
NoProvider == ""

\* the price a provider answers with (the mocks: 150.0 and 150.5)
ProviderPrice(name) ==
    CASE name = "yfinance" -> Num(150)
      [] name = "finnhub" -> R(301, 2)
      [] OTHER -> Num(151)

\* the exception a provider raises
ProviderError(name) == [raised |-> "Exception", provider |-> name]

\* the outcome of a query that has not been answered yet
Pending == [pending |-> TRUE]

\* the outcome of a query answered with a price
Price(price) == [price |-> price]

IsPrice(result) == Has(result, "price")

Query(name, result) == [provider |-> name, result |-> result]

InSeq(x, s) == \E i \in 1..Len(s) : s[i] = x

NoException == <<>>

IdleFrame ==
    [pc |-> "idle", provider_name |-> NoProvider, e |-> NoException,
     items |-> <<>>]

provider_name_default(providers, provider, default_provider) == default_provider

\* line 64
provider_name(providers, provider, default_provider) ==
    IF InSeq(provider, providers) THEN provider ELSE default_provider

skip_failed_never(items, failed) == items

\* lines 75-76: advance the iteration over self.providers.items() past
\* the provider that was tried first
skip_failed(items, failed) ==
    IF items # <<>> /\ Head(items) = failed THEN Tail(items) ELSE items

reraise_value_error(fallback, e, symbol) ==
    [raised |-> "ValueError", symbol |-> symbol]

\* lines 84-89: what is raised once no provider is left to try
reraise(fallback, e, symbol) ==
    IF ~fallback THEN e ELSE [raised |-> "ValueError", symbol |-> symbol]

\* the last query of the log, answered
Answer(log, result) ==
    [log EXCEPT ![Len(log)] = Query(log[Len(log)].provider, result)]

\* lines 66-69 and 77-80: the awaited provider answered with a price
Return(price) ==
    /\ frame' = [frame EXCEPT !.pc = "returned"]
    /\ ret' = Price(price)
    /\ queries' = Answer(queries, Price(price))

\* lines 75-89: the loop over the remaining providers, up to the next
\* await or to the raise that ends the call
\* the iteration stays on the provider it has just tried
fallback_rest_unmoved(items, failed) == skip_failed(items, failed)

\* line 76: the loop moves on, what is left are the providers after the
\* one it tries next
fallback_rest(items, failed) == Tail(skip_failed(items, failed))

Continue(f, items, error) ==
    IF args.fallback /\ skip_failed(items, f.provider_name) # <<>>
    THEN /\ frame' = [f EXCEPT !.pc = "await_fallback",
                               !.items = fallback_rest(items, f.provider_name)]
         /\ ret' = ret
         /\ queries' = Append(Answer(queries, error),
                              Query(Head(skip_failed(items, f.provider_name)), Pending))
    ELSE /\ frame' = [f EXCEPT !.pc = "raised", !.items = <<>>]
         /\ ret' = reraise(args.fallback, f.e, args.symbol)
         /\ queries' = Answer(queries, error)

ProviderLists ==
    { <<"yfinance">>, <<"yfinance", "finnhub">>,
      <<"yfinance", "finnhub", "alpha_vantage">>,
      <<"finnhub", "alpha_vantage", "yfinance">> }

MdsInputs ==
    { a \in [providers : ProviderLists, default_provider : ProviderNames,
             symbol : {"AAPL"},
             provider : ProviderNames \cup {NoProvider, "nonexistent"},
             fallback : BOOLEAN] :
        InSeq(a.default_provider, a.providers) }

----------------------------------------------------------------------------
(* The state machine: one call per behaviour, optionally followed by a     *)
(* re-application of the sanity clamp to the result it returned.           *)

Init ==
    /\ op = "init"
    /\ args = <<>>
    /\ ret = <<>>
    /\ prev = <<>>
    /\ frame = IdleFrame
    /\ queries = <<>>
    /\ cache = {}

Call(name, a, r) ==
    /\ op' = name
    /\ args' = a
    /\ ret' = r
    /\ prev' = <<>>
    /\ UNCHANGED <<frame, queries, cache>>

SanityArgs(result, p, d) ==
    [result |-> result, current_price |-> p, max_deviation |-> d]

SanityCheck ==
    /\ op = "init"
    /\ \E result \in EpsResults, p \in PriceValues, d \in DeviationValues :
        Call("apply_sanity_check", SanityArgs(result, p, d),
             apply_sanity_check(result, p, d))

MockSanityCheck ==
    /\ op = "init"
    /\ \E p \in PriceValues, d \in DeviationValues :
        \E result \in MockResults(p) :
            Call("mock_apply_sanity_check", SanityArgs(result, p, d),
                 mock_apply_sanity_check(result, p, d))

ExampleSanityCheck ==
    /\ op = "init"
    /\ \E p \in PriceValues, d \in DeviationValues :
        \E result \in ExampleResults(p) :
            Call("example_apply_sanity_check", SanityArgs(result, p, d),
                 example_apply_sanity_check(result, p, d))

DcfCalculate ==
    /\ op = "init"
    /\ \E a \in DcfInputs : Call("dcf_calculate", a, dcf_calculate(a))

PeCalculate ==
    /\ op = "init"
    /\ \E a \in PeInputs : Call("pe_calculate", a, pe_calculate(a))

EvEbitdaCalculate ==
    /\ op = "init"
    /\ \E a \in EvEbitdaInputs :
        Call("ev_ebitda_calculate", a, ev_ebitda_calculate(a))

CalculateIntrinsicValue ==
    /\ op = "init"
    /\ \E a \in SvcInputs :
        Call("calculate_intrinsic_value", a, calculate_intrinsic_value(a))

\* apply_sanity_check(apply_sanity_check(x, p, d), p, d)
Reapply(first, second, result) ==
    /\ op = first
    /\ ~IsRaised(ret)
    /\ op' = second
    /\ args' = SanityArgs(ret, args.current_price, args.max_deviation)
    /\ ret' = result
    /\ prev' = ret
    /\ UNCHANGED <<frame, queries, cache>>

ReapplySanityCheck ==
    Reapply("apply_sanity_check", "reapply_sanity_check",
            apply_sanity_check(ret, args.current_price, args.max_deviation))

ReapplyMockSanityCheck ==
    Reapply("mock_apply_sanity_check", "reapply_mock_sanity_check",
            mock_apply_sanity_check(ret, args.current_price,
                                    args.max_deviation))

ReapplyExampleSanityCheck ==
    Reapply("example_apply_sanity_check", "reapply_example_sanity_check",
            example_apply_sanity_check(ret, args.current_price,
                                       args.max_deviation))

\* the combiner of calculate_intrinsic_value, lines 148-170, on the values
\* the three models returned
CombineValuations ==
    /\ op = "init"
    /\ \E a \in CombineInputs :
        Call("weighted_value", a,
             weighted_value_float(a.dcf_value, a.pe_value,
                                  a.ev_ebitda_value, a.weights))

OptionPricing ==
    /\ op = "init"
    /\ \E a \in OptionInputs : Call("option_pricing", a, option_pricing(a))

Main ==
    /\ op = "init"
    /\ \E a \in MainInputs : Call("main", a, main(a))

\* a second call of the operation the behaviour began with, on arguments a
\* that differ from the first call's in one argument; prev keeps the first
\* call
Second(second, a, r) ==
    /\ op' = second
    /\ args' = a
    /\ ret' = r
    /\ prev' = [args |-> args, ret |-> ret]
    /\ UNCHANGED <<frame, queries, cache>>

\* option_pricing for the same symbol and maturity at another strike
OptionPricingStrike ==
    /\ op = "option_pricing"
    /\ \E k \in StrikeValues \ {args.strike_price} :
        Second("option_pricing_strike", [args EXCEPT !.strike_price = k],
               option_pricing([args EXCEPT !.strike_price = k]))

\* another pass of main's loop with the same answers but for the strike
MainStrike ==
    /\ op = "main"
    /\ \E k \in StrikeValues \ {args.K} :
        Second("main_strike", [args EXCEPT !.K = k],
               main([args EXCEPT !.K = k]))

\* DiscountedCashFlowModel.calculate again with another growth_rate
DcfGrowthRate ==
    /\ op = "dcf_calculate"
    /\ args \in DcfGrowthInputs \cup DcfLongInputs
    /\ \E g \in SecondGrowthRates \ {args.growth_rate} :
        Second("dcf_growth_rate", [args EXCEPT !.growth_rate = g],
               dcf_calculate([args EXCEPT !.growth_rate = g]))

\* DiscountedCashFlowModel.calculate again with another discount_rate
DcfDiscountRate ==
    /\ op = "dcf_calculate"
    /\ args \in DcfWaccInputs
    /\ \E d \in SecondDiscountRates \ {args.discount_rate} :
        Second("dcf_discount_rate", [args EXCEPT !.discount_rate = d],
               dcf_calculate([args EXCEPT !.discount_rate = d]))

\* lines 51-68: the call, up to the await of the provider tried first
GetCurrentPrice ==
    /\ op = "init"
    /\ \E a \in MdsInputs :
        /\ op' = "get_current_price"
        /\ args' = a
        /\ ret' = Pending
        /\ prev' = <<>>
        /\ frame' = [pc |-> "await_selected",
                     provider_name |->
                        provider_name(a.providers, a.provider,
                                      a.default_provider),
                     e |-> NoException, items |-> <<>>]
        /\ queries' = << Query(provider_name(a.providers, a.provider,
                                             a.default_provider), Pending) >>
        /\ UNCHANGED cache

\* lines 68-89: the provider tried first answers
SelectedAnswers ==
    /\ op = "get_current_price"
    /\ frame.pc = "await_selected"
    /\ UNCHANGED <<op, args, prev, cache>>
    /\ \/ Return(ProviderPrice(frame.provider_name))
       \/ Continue([frame EXCEPT !.e = ProviderError(frame.provider_name)],
                   args.providers, ProviderError(frame.provider_name))

\* lines 78-89: a fallback provider answers
FallbackAnswers ==
    /\ op = "get_current_price"
    /\ frame.pc = "await_fallback"
    /\ UNCHANGED <<op, args, prev, cache>>
    /\ \/ Return(ProviderPrice(queries[Len(queries)].provider))
       \/ Continue(frame, frame.items,
                   ProviderError(queries[Len(queries)].provider))

DiscountedCashFlow ==
    /\ op = "init"
    /\ \E a \in FlatInputs :
        Call("discounted_cash_flow", a, discounted_cash_flow(a))

QualtrimDcfCalculate ==
    /\ op = "init"
    /\ \E a \in FlatInputs :
        Call("qualtrim_dcf_calculate", a, qualtrim_dcf_calculate(a))

DiscountedCashFlowFloat ==
    /\ op = "init"
    /\ \E a \in FlatFloatInputs :
        Call("discounted_cash_flow_float", a, discounted_cash_flow_float(a))

CalculateEntryPrice ==
    /\ op = "init"
    /\ \E a \in EntryPriceInputs :
        Call("calculate_entry_price", a, calculate_entry_price(a))

CalculateHopperEpsValuation ==
    /\ op = "init"
    /\ \E a \in HopperEpsInputs :
        Call("calculate_hopper_eps_valuation", a,
             calculate_hopper_eps_valuation(a))

CalculateEpsBasedValuation ==
    /\ op = "init"
    /\ \E a \in QualtrimEpsInputs :
        Call("calculate_eps_based_valuation", a,
             calculate_eps_based_valuation(a))

----------------------------------------------------------------------------
\* Cache keys of the two services.  A key is the f-string of the source;
\* it is kept as the record of its colon-separated parts, each part the
\* text that the f-string writes for it.

\* f"{x}": the text of a float is its shortest repr, one text per value
Text(x) == [text |-> "float", value |-> x]

\* the literal 'default'
DefaultText == [text |-> "default", value |-> Zero]

\* f"{x or 'default'}": None and 0 are both falsy
or_default(x) == IF IsNone(x) \/ x = Zero THEN DefaultText ELSE Text(x)

\* custom_weights of a request: not supplied, or the items of the dict
NotSupplied == [supplied |-> FALSE, items |-> <<>>]
Supplied(items) == [supplied |-> TRUE, items |-> items]

\* hopper_backend/services/valuation/service.py line 71:
\* '-'.join(f'{k}-{v}' for k, v in (custom_weights or {}).items())
joined_weights(custom_weights) ==
    [i \in 1..Len(custom_weights.items) |->
        [k |-> custom_weights.items[i].k, v |-> Text(custom_weights.items[i].v)]]

\* hopper_backend/services/valuation/service.py lines 67-72
valuation_cache_key(a) ==
    [prefix |-> "valuation", symbol |-> a.symbol,
     dcf_growth |-> or_default(a.custom_dcf_growth),
     earnings_growth |-> or_default(a.custom_earnings_growth),
     weights |-> joined_weights(a.custom_weights)]

\* qualtrim_backend/services/analytics/fft/service.py line 52
option_cache_key(a) ==
    [prefix |-> "option_price", symbol |-> a.symbol,
     strike_price |-> Text(a.strike_price),
     time_to_maturity |-> Text(a.time_to_maturity),
     use_real_world |-> a.use_real_world,
     real_world_return |-> or_default(a.real_world_return)]

KeyGrowthValues == {None, Zero, R(1, 10)}

KeyWeightValues ==
    {NotSupplied, Supplied(<<>>), Supplied(<<[k |-> "dcf", v |-> One]>>)}

ValuationRequests ==
    [symbol : {"AAPL"}, custom_dcf_growth : KeyGrowthValues,
     custom_earnings_growth : KeyGrowthValues,
     custom_weights : KeyWeightValues]

OptionRequests ==
    [symbol : {"ACME"}, strike_price : {Num(100)},
     time_to_maturity : {One}, use_real_world : BOOLEAN,
     real_world_return : KeyGrowthValues]

\* the key of one calculate_intrinsic_value request
ValuationCacheKey ==
    /\ op = "init"
    /\ \E a \in ValuationRequests :
        Call("valuation_cache_key", a, valuation_cache_key(a))

\* the key of another request for the same symbol
ValuationCacheKeySecond ==
    /\ op = "valuation_cache_key"
    /\ \E a \in {b \in ValuationRequests : b.symbol = args.symbol /\ b # args} :
        Second("valuation_cache_key_second", a, valuation_cache_key(a))

\* the key of one option_pricing request
OptionCacheKey ==
    /\ op = "init"
    /\ \E a \in OptionRequests :
        Call("option_cache_key", a, option_cache_key(a))

\* the key of another request that differs in real_world_return only
OptionCacheKeySecond ==
    /\ op = "option_cache_key"
    /\ \E x \in KeyGrowthValues \ {args.real_world_return} :
        Second("option_cache_key_second",
               [args EXCEPT !.real_world_return = x],
               option_cache_key([args EXCEPT !.real_world_return = x]))

----------------------------------------------------------------------------
\* ValuationService.calculate_intrinsic_value with a cache service
\* (hopper_backend/services/valuation/service.py lines 67-82 and 222-229).
\* The cache service is a key-value store: get returns what set stored
\* under the key, or nothing.

\* the part of the call that the cache key is built from
svc_request(a) ==
    [symbol |-> a.symbol,
     custom_dcf_growth |-> a.custom_dcf_growth,
     custom_earnings_growth |-> a.custom_earnings_growth,
     custom_weights |->
        IF DOMAIN a.custom_weights = {} THEN NotSupplied
        ELSE Supplied(<<[k |-> "dcf", v |-> a.custom_weights.dcf],
                        [k |-> "pe", v |-> a.custom_weights.pe],
                        [k |-> "ev_ebitda", v |-> a.custom_weights.ev_ebitda]>>)]

\* lines 67-72
svc_cache_key(a) == valuation_cache_key(svc_request(a))

\* cache_service.get: the values stored under the key, none or one
cache_get(store, key) == {x.value : x \in {y \in store : y.key = key}}

\* cache_service.set(key, value, expire=...)
cache_set(store, key, value, expire) ==
    {x \in store : x.key # key}
    \cup {[key |-> key, value |-> value, expire |-> expire]}

\* the lookup never finds anything
cached_result_ignored(cached_result) == FALSE

\* line 76: if cached_result
cached_result_found(cached_result) == cached_result # {}

\* a call of the coroutine to one of its collaborators
Collaborator(name) == [call |-> name]

\* the frame of calculate_intrinsic_value
ValuationFrame(pc, cache_key, cached_result, result) ==
    [pc |-> pc, cache_key |-> cache_key, cached_result |-> cached_result,
     result |-> result]

CachedInputs ==
    {[SvcBase EXCEPT !.custom_dcf_growth = cg] : cg \in {None, Zero, R(1, 5)}}

CachedOps ==
    {"cached_calculate_intrinsic_value",
     "cached_calculate_intrinsic_value_second"}

\* lines 67-82: the key is built and looked up; a hit returns at once, a
\* miss asks the market-data service
Lookup(name, a) ==
    /\ op' = name
    /\ args' = a
    /\ UNCHANGED cache
    /\ IF cached_result_found(cache_get(cache, svc_cache_key(a)))
       THEN /\ frame' = ValuationFrame("returned", svc_cache_key(a),
                                       cache_get(cache, svc_cache_key(a)), <<>>)
            /\ ret' = CHOOSE v \in cache_get(cache, svc_cache_key(a)) : TRUE
            /\ queries' = <<Collaborator("cache.get")>>
       ELSE /\ frame' = ValuationFrame("await_market_data", svc_cache_key(a),
                                       cache_get(cache, svc_cache_key(a)), <<>>)
            /\ ret' = <<>>
            /\ queries' = <<Collaborator("cache.get"),
                            Collaborator("market_data")>>

\* a first call, on the empty cache
CachedCalculateIntrinsicValue ==
    /\ op = "init"
    /\ \E a \in CachedInputs :
        /\ prev' = <<>>
        /\ Lookup("cached_calculate_intrinsic_value", a)

\* a second call, after the first has returned or raised
CachedCalculateIntrinsicValueSecond ==
    /\ op = "cached_calculate_intrinsic_value"
    /\ frame.pc \in {"returned", "raised"}
    /\ \E a \in CachedInputs :
        /\ prev' = [args |-> args, ret |-> ret]
        /\ Lookup("cached_calculate_intrinsic_value_second", a)

\* lines 80-112: the market-data service answers or raises; lines 227-229
\* turn the exception into a ValueError
MarketDataAnswers ==
    /\ op \in CachedOps
    /\ frame.pc = "await_market_data"
    /\ UNCHANGED <<op, args, prev, cache>>
    /\ \/ /\ frame' = [frame EXCEPT !.pc = "await_models"]
          /\ ret' = ret
          /\ queries' = Append(queries, Collaborator("models"))
       \/ /\ frame' = [frame EXCEPT !.pc = "raised"]
          /\ ret' = Raised("ValueError")
          /\ queries' = queries

\* lines 114-220: the three models are run and the result is built
ModelsAnswer ==
    /\ op \in CachedOps
    /\ frame.pc = "await_models"
    /\ UNCHANGED <<op, args, prev, cache>>
    /\ frame' = [frame EXCEPT !.pc = "await_cache_set",
                              !.result = calculate_intrinsic_value(args)]
    /\ ret' = ret
    /\ queries' = Append(queries, Collaborator("cache.set"))

\* lines 222-226: the result is stored for an hour and returned
CacheSetAnswers ==
    /\ op \in CachedOps
    /\ frame.pc = "await_cache_set"
    /\ UNCHANGED <<op, args, prev, queries>>
    /\ cache' = cache_set(cache, frame.cache_key, frame.result, 3600)
    /\ frame' = [frame EXCEPT !.pc = "returned"]
    /\ ret' = frame.result

Next ==
    \/ ValuationCacheKey
    \/ ValuationCacheKeySecond
    \/ OptionCacheKey
    \/ OptionCacheKeySecond
    \/ CachedCalculateIntrinsicValue
    \/ CachedCalculateIntrinsicValueSecond
    \/ MarketDataAnswers
    \/ ModelsAnswer
    \/ CacheSetAnswers
    \/ SanityCheck
    \/ MockSanityCheck
    \/ ExampleSanityCheck
    \/ ReapplySanityCheck
    \/ ReapplyMockSanityCheck
    \/ ReapplyExampleSanityCheck
    \/ DcfCalculate
    \/ PeCalculate
    \/ EvEbitdaCalculate
    \/ CalculateIntrinsicValue
    \/ CombineValuations
    \/ OptionPricing
    \/ Main
    \/ OptionPricingStrike
    \/ MainStrike
    \/ DcfGrowthRate
    \/ DcfDiscountRate
    \/ GetCurrentPrice
    \/ SelectedAnswers
    \/ FallbackAnswers
    \/ DiscountedCashFlow
    \/ QualtrimDcfCalculate
    \/ DiscountedCashFlowFloat
    \/ CalculateEntryPrice
    \/ CalculateHopperEpsValuation
    \/ CalculateEpsBasedValuation

Spec == Init /\ [][Next]_vars

\* the calls of get_current_price alone, where every awaited provider
\* answers or raises: the event loop resumes the coroutine
GetCurrentPriceNext ==
    \/ GetCurrentPrice
    \/ SelectedAnswers
    \/ FallbackAnswers

FairSpec ==
    /\ Init
    /\ [][GetCurrentPriceNext]_vars
    /\ WF_vars(SelectedAnswers)
    /\ WF_vars(FallbackAnswers)

----------------------------------------------------------------------------
(* Sanity clamp: claims C3 and C4.                                         *)

BandLow(a) == RMul(a.current_price, RSub(One, a.max_deviation))
BandHigh(a) == RMul(a.current_price, RAdd(One, a.max_deviation))

\* the nearest point of the band [lo, hi] to x
Nearest(x, lo, hi) == IF RGt(x, hi) THEN hi ELSE IF RLt(x, lo) THEN lo ELSE x

ClampFlagSet(r) == Has(r, "is_adjusted") /\ r["is_adjusted"] = TRUE
PreClampRetained(r, x) == Has(r, "original_value") /\ r["original_value"] = x

\* C3: apply_sanity_check(result, current_price, d) returns an intrinsic
\* value inside [current_price*(1-d), current_price*(1+d)], namely the input
\* value or the nearest bound, and when it clamps the result both flags the
\* clamp and retains the pre-clamp value.
C3_ClampRecordsFlagAndValue ==
    op \in {"apply_sanity_check", "mock_apply_sanity_check"} =>
        LET x == args.result["intrinsic_value"]
            y == ret["intrinsic_value"]
        IN  /\ RLe(BandLow(args), y) /\ RLe(y, BandHigh(args))
            /\ y = Nearest(x, BandLow(args), BandHigh(args))
            /\ (y # x => ClampFlagSet(ret) /\ PreClampRetained(ret, x))

SameExcept(r, q, keys) ==
    /\ DOMAIN r = DOMAIN q
    /\ \A k \in DOMAIN q \ keys : r[k] = q[k]

----------------------------------------------------------------------------
(* The combiner: claims C1, C2 and C8.                                     *)

OnlyDcfValid(a) ==
    /\ FloatIsValid(a.dcf_value)
    /\ ~FloatIsValid(a.pe_value)
    /\ ~FloatIsValid(a.ev_ebitda_value)

\* C1: the combiner includes a model only when its per-share value is not
\* None and > 0 and returns sum(value_i * weight_i) / sum(weight_i) over the
\* included models; in particular, when only the DCF value is > 0 and the
\* DCF weight is positive, weighted_value equals the DCF per_share_value
\* exactly.
C1_OnlyDcfGivesDcfValue ==
    (/\ op = "weighted_value"
     /\ OnlyDcfValid(args)
     /\ ~FloatIsZero(args.weights.dcf)) => ret = args.dcf_value

\* the per-share values the three models return for a service request
SvcValues(a) ==
    [dcf |-> dcf_calculate(svc_dcf_args(a)).per_share_value,
     pe |-> pe_calculate(PeArgs(svc_eps(a),
                                svc_earnings_growth(a))).fair_value,
     ev_ebitda |-> ev_ebitda_calculate(svc_ev_ebitda_args(a)).per_share_value]

SvcWeights(a) ==
    IF DOMAIN a.custom_weights = {} THEN a.weights ELSE a.custom_weights

ModelNames == {"dcf", "pe", "ev_ebitda"}

ValidModels(a) == {m \in ModelNames : IsValid(SvcValues(a)[m])}

\* C2 as claimed: when no model has a per-share value > 0, the combiner
\* raises InvalidInputError instead of returning a weighted value of 0.
C2_AllInvalidRaises ==
    (op = "calculate_intrinsic_value" /\ ValidModels(args) = {})
        => IsRaised(ret)

\* C2 amended: when no model has a per-share value > 0, the service raises
\* nothing and returns weighted_value = 0, with every reported weight 0 and
\* an upside_potential of -100 (0 when the price is not positive).
C2_AllInvalidReturnsZero ==
    (op = "calculate_intrinsic_value" /\ ValidModels(args) = {}) =>
        /\ ~IsRaised(ret)
        /\ ret.weighted_value = Zero
        /\ \A m \in ModelNames : ret.details[m].weight = Zero
        /\ ret.upside_potential =
              IF RGt(ret.current_price, Zero) THEN Num(-100) ELSE Zero

\* a request whose DCF value is negative and whose P/E and EV/EBITDA
\* models failed
C2_Witness ==
    /\ op = "calculate_intrinsic_value"
    /\ ValidModels(args) = {}
    /\ RLt(ret.dcf_value, Zero)
    /\ IsNone(ret.pe_value)
    /\ ret.weighted_value = Zero

\* C8: a per-model failure degrades locally: P/E with eps <= 0 returns
\* fair_value None, EV/EBITDA with ebitda <= 0 or shares_outstanding <= 0
\* returns per_share_value 0, neither raises, and calculate_intrinsic_value
\* returns the weighted value of the remaining valid models and reports
\* weight 0 for every failed model.
C8_FailuresDegradeLocally ==
    /\ (op = "pe_calculate" /\ RLe(args.eps, Zero)) =>
          ~IsRaised(ret) /\ IsNone(ret.fair_value)
    /\ (op = "ev_ebitda_calculate"
         /\ (RLe(args.ebitda, Zero) \/ RLe(args.shares_outstanding, Zero))) =>
          ~IsRaised(ret) /\ ret.per_share_value = Zero
    /\ op = "calculate_intrinsic_value" =>
          LET value == SvcValues(args)
              weights == SvcWeights(args)
              valid == ValidModels(args)
              share(m) == IF m \in valid THEN weights[m] ELSE Zero
              part(m) == IF m \in valid THEN RMul(value[m], weights[m])
                         ELSE Zero
              total == RAdd(share("dcf"), RAdd(share("pe"),
                                               share("ev_ebitda")))
          IN  /\ ~IsRaised(ret)
              /\ \A m \in ModelNames \ valid : ret.details[m].weight = Zero
              /\ RGt(total, Zero) =>
                    RMul(ret.weighted_value, total) =
                        RAdd(part("dcf"), RAdd(part("pe"),
                                               part("ev_ebitda")))

\* a request whose P/E model failed on eps <= 0 while the other two models
\* are valid and carry the whole weighted value
C8_Witness ==
    /\ op = "calculate_intrinsic_value"
    /\ RLe(svc_eps(args), Zero)
    /\ ValidModels(args) = {"dcf", "ev_ebitda"}
    /\ SvcWeights(args).pe # Zero
    /\ ret.details.pe.weight = Zero
    /\ RGt(ret.weighted_value, Zero)

----------------------------------------------------------------------------
(* DiscountedCashFlowModel.calculate: claims C5, C6 and C7.                *)

\* C5: per_share_value = equity_value / shares_outstanding floored at 0,
\* so the DCF never returns a negative per_share_value.
C5_PerShareValueNotNegative ==
    op = "dcf_calculate" => RGe(ret.per_share_value, Zero)

\* C6: whenever the DCF computes a terminal value, the discount rate it
\* uses is strictly greater than terminal_growth, whatever discount_rate,
\* terminal_growth and CAPM inputs the caller supplied.
C6_DiscountRateAboveTerminalGrowth ==
    (op = "dcf_calculate" /\ Has(ret, "terminal_value")) =>
        RGt(dcf_calculated_discount_rate(args), args.terminal_growth)

ZeroResult(r) ==
    /\ r.enterprise_value = Zero
    /\ r.equity_value = Zero
    /\ r.per_share_value = Zero

InvalidDcfInput(a) ==
    \/ RLe(a.fcf, Zero)
    \/ RLe(a.shares_outstanding, Zero)
    \/ a.years <= 0
    \/ dcf_calculated_discount_rate(a) = a.terminal_growth

StepFails(a) ==
    \/ a.years <= 0
    \/ dcf_calculated_discount_rate(a) = a.terminal_growth
    \/ /\ RLe(a.fcf, Zero)
       /\ \A i \in 1..Len(a.historical_fcf) : RLe(a.historical_fcf[i], Zero)
       /\ a.shares_outstanding = Zero

----------------------------------------------------------------------------
(* The option pricer: claims C9 and C10.                                   *)

\* S0 * e^(-qT) - K * e^(-rT)
ParityGap(S0, K, T, q, r) ==
    LinSub(ExpTerm(S0, RMul(RNeg(q), T)), ExpTerm(K, RMul(RNeg(r), T)))

\* C9: for every valid option input (S0 > 0, K > 0, T > 0, sigma > 0,
\* q >= 0), in risk-neutral and in real-world mode, the returned prices
\* satisfy call_price - put_price = S0*e^(-qT) - K*e^(-rT) with r the
\* risk-free rate, whatever drift priced the call.
C9_PutCallParity ==
    /\ (/\ op = "option_pricing"
        /\ RGt(args.strike_price, Zero)
        /\ RGt(args.time_to_maturity, Zero)
        /\ RGt(args.volatility, Zero)) =>
          /\ ~IsRaised(ret)
          /\ LinSub(ret.call_price, ret.put_price) =
                ParityGap(args.current_price, args.strike_price,
                          args.time_to_maturity, ret.dividend_yield,
                          risk_free_rate)
    /\ (op = "main" /\ RGt(args.sigma, Zero) /\ Has(ret, "call_price")) =>
          LinSub(ret.call_price, ret.put_price) =
              ParityGap(args.S0, args.K, args.T, args.q, risk_free_rate)

\* real-world mode with a drift of 10%, other than the risk-free rate
C9_Witness ==
    /\ op = "option_pricing"
    /\ args.use_real_world
    /\ args.real_world_return = R(1, 10)
    /\ RGt(args.strike_price, Zero)
    /\ RGt(args.time_to_maturity, Zero)
    /\ RGt(args.volatility, Zero)
    /\ ret.expected_return = R(1, 10)
    /\ Coefficient(ret.put_price,
                   RMul(RNeg(risk_free_rate), args.time_to_maturity))
          = args.strike_price

\* C10: option pricing invoked with sigma <= 0, T <= 0 or K <= 0 fails
\* with an error for that request and returns no call price, put price or
\* probability.
C10_InvalidParametersRejected ==
    /\ (/\ op = "option_pricing"
        /\ \/ RLe(args.volatility, Zero)
           \/ RLe(args.time_to_maturity, Zero)
           \/ RLe(args.strike_price, Zero)) => IsRaised(ret)
    /\ (/\ op = "main"
        /\ \/ RLe(args.sigma, Zero)
           \/ RLe(args.T, Zero)
           \/ RLe(args.K, Zero)) => ~Has(ret, "call_price")

\* d1 = (ln(S0/K) + (drift - q + sigma^2/2) T) / (sigma sqrt(T)) falls
\* strictly as K rises, the rest fixed: d1 of t is below d1 of u
D1Below(t, u) ==
    /\ [t EXCEPT !.K = u.K] = u
    /\ RGt(t.S0, Zero) /\ RGt(t.T, Zero) /\ RGt(t.sigma, Zero)
    /\ RGt(u.K, Zero) /\ RGt(t.K, u.K)

\* the argument handed to norm.cdf for p is below the one for r
CdfArgBelow(p, r) ==
    /\ p.one_minus_cdf_of = r.one_minus_cdf_of
    /\ IF p.one_minus_cdf_of = "d1" THEN D1Below(p.d1, r.d1)
       ELSE D1Below(r.d1, p.d1)

\* 1 - norm.cdf(x) falls strictly as x rises: probability p is below r
ProbBelow(p, r) == CdfArgBelow(r, p)

ValidStrikes(k1, k2) == RGt(k1, Zero) /\ RGt(k2, k1)

\* C11: the probability of ending above the strike that each option
\* pricing routine returns is N(d1), so for two calls that differ only in
\* the strike, the call with the higher strike returns the strictly lower
\* probability.
C11_ProbabilityDecreasingInStrike ==
    /\ (/\ op = "option_pricing_strike"
        /\ RGt(args.time_to_maturity, Zero) /\ RGt(args.volatility, Zero)
        /\ ValidStrikes(prev.args.strike_price, args.strike_price)) =>
          ProbBelow(ret.probability_above_strike,
                    prev.ret.probability_above_strike)
    /\ (/\ op = "main_strike"
        /\ RGt(args.sigma, Zero)
        /\ ValidStrikes(prev.args.K, args.K)
        /\ Has(ret, "prob_ST_above_K")) =>
          ProbBelow(ret.prob_ST_above_K, prev.ret.prob_ST_above_K)

----------------------------------------------------------------------------
(* DiscountedCashFlowModel.calculate: claim C12.                           *)

RateAboveTerminalGrowth(a) ==
    RGt(dcf_calculated_discount_rate(a), a.terminal_growth)

\* C12 as claimed: with the other inputs fixed and the discount rate above
\* terminal growth, per_share_value rises strictly with growth_rate and
\* falls strictly with discount_rate, for every pair of distinct rates.
C12_StrictlyMonotone ==
    /\ (/\ op = "dcf_growth_rate"
        /\ RateAboveTerminalGrowth(args)
        /\ RGt(args.growth_rate, prev.args.growth_rate)) =>
          RGt(ret.per_share_value, prev.ret.per_share_value)
    /\ (/\ op = "dcf_discount_rate"
        /\ RateAboveTerminalGrowth(args)
        /\ RateAboveTerminalGrowth(prev.args)
        /\ RGt(args.discount_rate, prev.args.discount_rate)) =>
          RLt(ret.per_share_value, prev.ret.per_share_value)

\* every projected growth rate is above -100%, so with fcf > 0 every
\* projected cash flow is positive
GrowthAboveMinusOne(a) ==
    \A i \in 1..YearsLen(a) :
        RGt(dcf_projected_growth_rates(a)[i], Num(-1))

PositiveFlows(a) == RGt(a.fcf, Zero) /\ GrowthAboveMinusOne(a)

RateInRange(a) ==
    RGt(a.discount_rate, R(1, 100)) /\ RLt(a.discount_rate, R(3, 10))

\* C12 amended: for fcf > 0, projected growth rates above -100% and a
\* discount rate above terminal growth, per_share_value rises strictly with
\* growth_rate when years >= 2 and does not depend on it when years = 1;
\* it falls strictly with discount_rate for supplied rates inside
\* (1%, 30%) when the CAPM inputs are incomplete, and does not depend on
\* discount_rate when they are complete.
C12_MonotoneInsideClamps ==
    /\ (/\ op = "dcf_growth_rate"
        /\ PositiveFlows(args) /\ PositiveFlows(prev.args)
        /\ RateAboveTerminalGrowth(args)
        /\ RGt(args.growth_rate, prev.args.growth_rate)) =>
          IF args.years >= 2
          THEN RGt(ret.per_share_value, prev.ret.per_share_value)
          ELSE ret.per_share_value = prev.ret.per_share_value
    /\ (/\ op = "dcf_discount_rate"
        /\ PositiveFlows(args)
        /\ RateAboveTerminalGrowth(args)
        /\ RateAboveTerminalGrowth(prev.args)
        /\ RGt(args.discount_rate, prev.args.discount_rate)) =>
          /\ dcf_wacc_calculated(args) =>
                ret.per_share_value = prev.ret.per_share_value
          /\ (/\ ~dcf_wacc_calculated(args)
              /\ RateInRange(args) /\ RateInRange(prev.args)) =>
                RLt(ret.per_share_value, prev.ret.per_share_value)

\* a three-year valuation blended with an analyst estimate, valued again
\* at a higher growth_rate and worth strictly more
C12_Witness ==
    /\ op = "dcf_growth_rate"
    /\ args.years = 3
    /\ ~IsNone(args.analyst_growth_estimate)
    /\ PositiveFlows(args) /\ PositiveFlows(prev.args)
    /\ RateAboveTerminalGrowth(args)
    /\ RGt(args.growth_rate, prev.args.growth_rate)
    /\ RGt(ret.per_share_value, prev.ret.per_share_value)

----------------------------------------------------------------------------
\* claim C13

\* the weights reported under details, added over the three models
ReportedWeightSum(r) ==
    RAdd(RAdd(r.details.dcf.weight, r.details.pe.weight),
         r.details.ev_ebitda.weight)

\* C13: in every result of calculate_intrinsic_value with at least one
\* valid model, the weights reported under details sum to 1 over the
\* models whose per-share value is > 0 (the others report 0).
C13_ReportedWeightsSumToOne ==
    (/\ op = "calculate_intrinsic_value"
     /\ ~IsRaised(ret)
     /\ ValidModels(args) # {}) =>
        RSub(ReportedWeightSum(ret), One) = Zero

----------------------------------------------------------------------------
\* claims C14, C15 and C16

\* a call of get_current_price, running or finished
InGetCurrentPrice == op = "get_current_price"

Finished == frame.pc \in {"returned", "raised"}

\* the provider the caller asked for: the default one when none is named
AskedFor(a) ==
    IF a.provider = NoProvider THEN a.default_provider ELSE a.provider

\* how often a provider has been queried
TimesQueried(name) ==
    Cardinality({i \in 1..Len(queries) : queries[i].provider = name})

\* C14: with no provider argument the default provider, and with the name
\* of a configured provider that provider, is queried first and exactly
\* once; when that first query succeeds its price is returned and no
\* other provider is queried.
C14_SelectedProviderQueriedOnce ==
    (/\ InGetCurrentPrice
     /\ args.provider = NoProvider \/ InSeq(args.provider, args.providers)) =>
        /\ queries[1].provider = AskedFor(args)
        /\ TimesQueried(AskedFor(args)) = 1
        /\ IsPrice(queries[1].result) =>
              /\ frame.pc = "returned"
              /\ ret = Price(ProviderPrice(AskedFor(args)))
              /\ Len(queries) = 1

\* finnhub is asked for by name while yfinance is the default; it answers
\* and its price is returned
C14_Witness ==
    /\ InGetCurrentPrice
    /\ args.provider = "finnhub" /\ args.default_provider = "yfinance"
    /\ frame.pc = "returned"
    /\ queries = << Query("finnhub", Price(ProviderPrice("finnhub"))) >>
    /\ ret = Price(ProviderPrice("finnhub"))

\* the configured providers other than the one tried first, in
\* registration order
Others(a, first) == SelectSeq(a.providers, LAMBDA name : name # first)

IsPrefix(s, t) == Len(s) <= Len(t) /\ \A i \in 1..Len(s) : s[i] = t[i]

FallbackQueries == [i \in 1..(Len(queries) - 1) |-> queries[i + 1].provider]

\* C15: after the selected provider raised with fallback=True, the other
\* configured providers are queried one at a time in registration order,
\* each at most once and never the failed one; a provider is queried only
\* after every earlier one raised, and the price of the first one that
\* succeeds is returned without querying the providers after it.
C15_FallbackInRegistrationOrder ==
    (/\ InGetCurrentPrice
     /\ args.fallback
     /\ Has(queries[1].result, "raised")) =>
        /\ IsPrefix(FallbackQueries, Others(args, queries[1].provider))
        /\ \A i \in 1..(Len(queries) - 1) : Has(queries[i].result, "raised")
        /\ IsPrice(queries[Len(queries)].result) =>
              /\ frame.pc = "returned"
              /\ ret = Price(ProviderPrice(queries[Len(queries)].provider))
        /\ frame.pc = "returned" => IsPrice(queries[Len(queries)].result)

\* finnhub is the default and raises, yfinance raises, alpha_vantage
\* answers: three queries, the last one's price returned
C15_Witness ==
    /\ InGetCurrentPrice
    /\ args.fallback
    /\ args.providers = <<"yfinance", "finnhub", "alpha_vantage">>
    /\ args.default_provider = "finnhub"
    /\ frame.pc = "returned"
    /\ queries = << Query("finnhub", ProviderError("finnhub")),
                    Query("yfinance", ProviderError("yfinance")),
                    Query("alpha_vantage",
                          Price(ProviderPrice("alpha_vantage"))) >>
    /\ ret = Price(ProviderPrice("alpha_vantage"))

\* C16: after the selected provider raised with fallback=False, the call
\* has raised that provider's exception unchanged, the failed provider
\* has been queried exactly once and no other provider has been queried.
C16_NoFallbackReraises ==
    (/\ InGetCurrentPrice
     /\ ~args.fallback
     /\ Has(queries[1].result, "raised")) =>
        /\ frame.pc = "raised"
        /\ ret = queries[1].result
        /\ ret = ProviderError(frame.provider_name)
        /\ Len(queries) = 1

\* the default provider raises with fallback=False while two other
\* providers are configured
C16_Witness ==
    /\ InGetCurrentPrice
    /\ ~args.fallback
    /\ Len(args.providers) = 3
    /\ frame.pc = "raised"
    /\ queries = << Query(args.default_provider,
                          ProviderError(args.default_provider)) >>
    /\ ret = ProviderError(args.default_provider)

----------------------------------------------------------------------------
\* claim C17

FlatOps == {"discounted_cash_flow", "qualtrim_dcf_calculate"}

\* sum over t = 1..years of fcf * ((1 + g) / (1 + d))^t
RECURSIVE DiscountedFlowSum(_, _)
DiscountedFlowSum(a, t) ==
    IF t < 1 THEN Zero
    ELSE RAdd(DiscountedFlowSum(a, t - 1),
              RMul(a.fcf, RPow(RDiv(RAdd(One, a.growth_rate),
                                    RAdd(One, a.discount_rate)), t)))

\* fcf * (1+g)^years * (1+tg) / ((d - tg) * (1+d)^years)
DiscountedTerminalValue(a) ==
    RDiv(RMul(RMul(a.fcf, RPow(RAdd(One, a.growth_rate), a.years)),
              RAdd(One, a.terminal_growth)),
         RMul(RSub(a.discount_rate, a.terminal_growth),
              RPow(RAdd(One, a.discount_rate), a.years)))

FormulaEnterpriseValue(a) ==
    RAdd(DiscountedFlowSum(a, a.years), DiscountedTerminalValue(a))

\* the result is the one the formulas of the claim give
FollowsFormula(a, r) ==
    /\ r.enterprise_value = FormulaEnterpriseValue(a)
    /\ r.equity_value = RSub(FormulaEnterpriseValue(a), a.net_debt)
    /\ r.per_share_value =
          RDiv(RSub(FormulaEnterpriseValue(a), a.net_debt),
               a.shares_outstanding)

\* the formulas have a value: no division by zero, a last projected year
FormulaDefined(a) ==
    /\ a.years >= 1
    /\ a.shares_outstanding # Zero
    /\ RAdd(One, a.discount_rate) # Zero
    /\ a.discount_rate # a.terminal_growth

\* scenario A: fcf = 1,000,000,000, g = 0.10, d = 0.10, tg = 0.02,
\* years = 1, net_debt = 0, shares_outstanding = 1,000,000,000
ScenarioA ==
    [fcf |-> Num(1000000000), growth_rate |-> R(10, 100),
     discount_rate |-> R(10, 100), years |-> 1,
     terminal_growth |-> R(2, 100), net_debt |-> Zero,
     shares_outstanding |-> Num(1000000000)]

InScenarioA == op = "discounted_cash_flow_float" /\ args = ScenarioA

\* 13.75 billion and 13.75 as floats (both exact)
ScenarioEnterpriseValue == FloatMul(FloatOfNat(1375), FloatOfNat(10000000))
ScenarioPerShareValue == FloatOf(55, 4)

\* x is within one part in 10^9 of the target
FloatNear(x, target) ==
    /\ FloatLe(FloatMul(target, FloatOf(999999999, 1000000000)), x)
    /\ FloatLe(x, FloatMul(target, FloatOf(1000000001, 1000000000)))

\* C17 as claimed: every call of the flat-growth DCF returns the values
\* of the formulas, and scenario A gives enterprise_value = 13.75 billion
\* and per_share_value = 13.75.
C17_FormulaAndScenarioExact ==
    /\ op \in FlatOps =>
          /\ ~IsRaised(ret)
          /\ FormulaDefined(args)
          /\ FollowsFormula(args, ret)
    /\ InScenarioA =>
          /\ ret.enterprise_value = ScenarioEnterpriseValue
          /\ ret.per_share_value = ScenarioPerShareValue

\* C17 amended: for fcf > 0, shares_outstanding > 0, years >= 1,
\* d # tg and d # -1 the flat-growth DCF returns the values of the
\* formulas; scenario A gives enterprise_value and per_share_value within
\* one part in 10^9 of 13.75 billion and 13.75.
C17_FormulaAndScenarioNear ==
    /\ (/\ op \in FlatOps
        /\ RGt(args.fcf, Zero) /\ RGt(args.shares_outstanding, Zero)
        /\ FormulaDefined(args)) =>
          /\ ~IsRaised(ret)
          /\ FollowsFormula(args, ret)
    /\ InScenarioA =>
          /\ FloatNear(ret.enterprise_value, ScenarioEnterpriseValue)
          /\ FloatNear(ret.per_share_value, ScenarioPerShareValue)

\* scenario A has been valued; the binary64 results are near 13.75
\* billion and 13.75 without being equal to them
C17_Witness ==
    /\ InScenarioA
    /\ FloatNear(ret.enterprise_value, ScenarioEnterpriseValue)
    /\ ret.enterprise_value # ScenarioEnterpriseValue
    /\ ret.per_share_value # ScenarioPerShareValue

----------------------------------------------------------------------------
\* claim C18

EntryOps ==
    {"calculate_entry_price", "calculate_hopper_eps_valuation",
     "calculate_eps_based_valuation"}

\* the target value, the desired return and the entry price of a call
EntryTarget ==
    IF op = "calculate_entry_price" THEN args.target_value
    ELSE ret.future_value

EntryDesiredReturn ==
    IF op = "calculate_eps_based_valuation" THEN args.discount_rate
    ELSE args.desired_return

EntryPrice ==
    IF op = "calculate_hopper_eps_valuation" THEN ret.entry_price
    ELSE ret.entry_price_for_target

\* C18: for current_price > 0 (and years >= 1) each of the three routines
\* returns an entry price with entry_price * (1 + r_desired)^n = target
\* and an implied return with current_price * (1 + implied_return)^n =
\* target.
C18_EntryPriceAndImpliedReturn ==
    (/\ op \in EntryOps
     /\ ~IsNone(args.current_price) /\ RGt(args.current_price, Zero)
     /\ args.years >= 1) =>
        /\ ~IsRaised(ret)
        /\ RMul(EntryPrice, RPow(RAdd(One, EntryDesiredReturn), args.years))
              = EntryTarget
        /\ ~IsNone(ret.implied_return)
        /\ RMul(args.current_price,
                RPow(RAdd(One, ret.implied_return), args.years))
              = EntryTarget

----------------------------------------------------------------------------
\* claim C19

\* a DCF result whose first cash flow shows the discount rate that was used
ShowsRate(r) ==
    /\ ~Has(r, "error")
    /\ Has(r, "discounted_cash_flows")
    /\ Len(r.future_cash_flows) >= 1
    /\ r.future_cash_flows[1] # Zero

\* the rate the first cash flow was discounted at
UsedRate(r) ==
    RSub(RDiv(r.future_cash_flows[1], r.discounted_cash_flows[1]), One)

CapmSupplied(a) ==
    /\ ~IsNone(a.beta) /\ ~IsNone(a.risk_free_rate)
    /\ ~IsNone(a.debt_to_equity) /\ ~IsNone(a.cost_of_debt)

Clamped(x, low, high) == RMin(RMax(x, low), high)

EquityShare(a) == RDiv(One, RAdd(One, a.debt_to_equity))

\* (risk_free_rate + beta * market_risk_premium) * E
\*     + 0.75 * cost_of_debt * (1 - E)
Wacc(a) ==
    RAdd(RMul(RAdd(a.risk_free_rate, RMul(a.beta, a.market_risk_premium)),
              EquityShare(a)),
         RMul(RMul(R(75, 100), a.cost_of_debt), RSub(One, EquityShare(a))))

\* C19: the discount rate used is the WACC clamped to [5%, 20%] when beta,
\* risk_free_rate, debt_to_equity and cost_of_debt are all supplied, and
\* otherwise the supplied discount_rate clamped to the range 1% .. 30%: a
\* rate below the range is raised to 1%, one above it lowered to 30%.
C19_DiscountRateSelection ==
    (op = "dcf_calculate" /\ ShowsRate(ret)) =>
        UsedRate(ret) =
            IF CapmSupplied(args)
            THEN Clamped(Wacc(args), R(5, 100), R(20, 100))
            ELSE Clamped(args.discount_rate, R(1, 100), R(30, 100))

----------------------------------------------------------------------------
\* claim C20

DcfOps == {"dcf_calculate", "dcf_growth_rate", "dcf_discount_rate"}

\* a result that is not the error dictionary
NonError(r) == ~Has(r, "error") /\ Has(r, "terminal_value")

FinalFlow(r) == r.future_cash_flows[Len(r.future_cash_flows)]

\* terminal_value / final projected cash flow
TerminalMultiple(r) == RDiv(r.terminal_value, FinalFlow(r))

\* the multiple of the Gordon-growth formula at the rate the result was
\* discounted at
GordonMultiple(a, r) ==
    RDiv(RAdd(One, a.terminal_growth), RSub(UsedRate(r), a.terminal_growth))

----------------------------------------------------------------------------
\* claim C21

\* the cash flow the projection started from, read off the result
BaseFlow(r) ==
    RDiv(r.future_cash_flows[1], RAdd(One, r.projected_growth_rates[1]))

ShowsBaseFlow(r) ==
    /\ NonError(r)
    /\ Len(r.future_cash_flows) >= 1
    /\ RAdd(One, r.projected_growth_rates[1]) # Zero

PositiveIndices(h) == {i \in 1..Len(h) : RGt(h[i], Zero)}

\* the most recent positive value of a history that has one
MostRecentPositive(h) ==
    h[CHOOSE i \in PositiveIndices(h) : \A j \in PositiveIndices(h) : j <= i]

\* C21: given fcf <= 0 the projection starts from the most recent positive
\* historical value if there is one and from 0.1 * shares_outstanding
\* otherwise, and no projected growth rate exceeds 5%.
C21_SubstituteAndCapGrowth ==
    (op = "dcf_calculate" /\ RLe(args.fcf, Zero) /\ ShowsBaseFlow(ret)) =>
        /\ BaseFlow(ret) =
              IF PositiveIndices(args.historical_fcf) # {}
              THEN MostRecentPositive(args.historical_fcf)
              ELSE RMul(R(1, 10), args.shares_outstanding)
        /\ \A i \in 1..Len(ret.projected_growth_rates) :
              RLe(ret.projected_growth_rates[i], R(5, 100))

----------------------------------------------------------------------------
\* claim C22

\* tau = i / (years - 1), and 1 when years = 1, for the 0-based year i
Tau(i, years) == IF years = 1 THEN One ELSE R(i, years - 1)

\* the returned path is the tapered pre-taper path: length years, element
\* i equal to pre_taper[i] * (1 - tau) + terminal_growth * tau
IsTapered(a, path) ==
    /\ Len(path) = a.years
    /\ \A i \in 0..(a.years - 1) :
          path[i + 1] =
              RAdd(RMul(dcf_pre_taper(a)[i + 1], RSub(One, Tau(i, a.years))),
                   RMul(a.terminal_growth, Tau(i, a.years)))
    /\ path[Len(path)] = a.terminal_growth

\* the values never move away from where they end: the sequence is
\* non-increasing or non-decreasing
IsMonotone(path) ==
    \/ \A i \in 1..(Len(path) - 1) : RGe(path[i], path[i + 1])
    \/ \A i \in 1..(Len(path) - 1) : RLe(path[i], path[i + 1])

FlatPreTaper(a) ==
    \A i \in 1..Len(dcf_pre_taper(a)) : dcf_pre_taper(a)[i] = dcf_pre_taper(a)[1]

----------------------------------------------------------------------------
\* claim C23

\* a weight that is 0.6 in year 1 (i = 0) and falls linearly to 0 in the
\* final year (i = years - 1)
LinearToFinalYear(i, years) == RMul(R(6, 10), RSub(One, R(i, years - 1)))

\* the growth path before the analyst estimate is blended in
BeforeAnalyst(a) ==
    dcf_regression(dcf_historical_fcf(a), dcf_negative_fcf(a).growth_rate, YearsLen(a))

\* the analyst estimate blended with the weight that reaches 0 in the
\* final year
BlendedToFinalYear(a) ==
    [i \in 1..Len(BeforeAnalyst(a)) |->
        Blend(BeforeAnalyst(a)[i], a.analyst_growth_estimate,
              LinearToFinalYear(i - 1, a.years))]

\* C23: with an analyst estimate and years >= 2, the returned growth path
\* is the one obtained by blending the estimate with a weight of 0.6 in
\* year 1 that decreases linearly to exactly 0 in the final year.
C23_AnalystWeightReachesZero ==
    (/\ op = "dcf_calculate" /\ NonError(ret)
     /\ ~IsNone(args.analyst_growth_estimate) /\ args.years >= 2) =>
        ret.projected_growth_rates =
            dcf_taper(dcf_conservative(dcf_industry(BlendedToFinalYear(args), args), args), args)

----------------------------------------------------------------------------
\* claim C24

\* growth_rate x 100 x peg_ratio clamped to [5, 50]
ClampedPe(a) ==
    IF RLt(RMul(RMul(a.growth_rate, Num(100)), a.peg_ratio), Num(5)) THEN Num(5)
    ELSE IF RGt(RMul(RMul(a.growth_rate, Num(100)), a.peg_ratio), Num(50)) THEN Num(50)
    ELSE RMul(RMul(a.growth_rate, Num(100)), a.peg_ratio)

IndustryPeSupplied(a) == ~IsNone(a.industry_pe) /\ RGt(a.industry_pe, Zero)

PeValid(a) == RGt(a.eps, Zero) /\ a.years > 0 /\ RGt(a.discount_rate, Zero)

\* C24 as claimed: with eps > 0 the target P/E is the clamped derived
\* multiple, blended 70/30 with the industry P/E when one is supplied, and
\* fair_value = eps x target P/E.
C24_BlendedTargetTimesEps ==
    (op = "pe_calculate" /\ PeValid(args)) =>
        /\ ret.target_pe =
              IF IndustryPeSupplied(args)
              THEN RAdd(RMul(R(7, 10), ClampedPe(args)), RMul(R(3, 10), args.industry_pe))
              ELSE ClampedPe(args)
        /\ ret.fair_value = RMul(args.eps, ret.target_pe)

\* C24 amended: the target P/E is the industry P/E when one is supplied
\* and the clamped derived multiple otherwise, and fair_value is the
\* earnings grown for years at growth_rate, times the target P/E,
\* discounted for years at discount_rate.
C24_TargetAndDiscountedValue ==
    (op = "pe_calculate" /\ PeValid(args)) =>
        /\ ret.target_pe =
              IF IndustryPeSupplied(args) THEN args.industry_pe ELSE ClampedPe(args)
        /\ RMul(ret.fair_value, RPow(RAdd(One, args.discount_rate), args.years)) =
              RMul(RMul(args.eps, RPow(RAdd(One, args.growth_rate), args.years)),
                   ret.target_pe)

\* an industry P/E of 20 is supplied for five years of 10% growth: the
\* target is 20, not the 70/30 blend 17, and the value is not eps x 20
C24_Witness ==
    /\ op = "pe_calculate" /\ PeValid(args)
    /\ IndustryPeSupplied(args) /\ args.years = 5
    /\ ClampedPe(args) # args.industry_pe
    /\ ret.target_pe = args.industry_pe
    /\ ret.fair_value # RMul(args.eps, ret.target_pe)

----------------------------------------------------------------------------
\* claim C25

\* C25: two calculate_intrinsic_value requests for the same symbol that
\* differ in custom_dcf_growth, custom_earnings_growth or custom_weights,
\* and two option_pricing requests that differ in real_world_return,
\* never have the same cache key (0 and not supplied included).
C25_DistinctRequestsDistinctKeys ==
    /\ (/\ op = "valuation_cache_key_second"
        /\ args.symbol = prev.args.symbol
        /\ \/ args.custom_dcf_growth # prev.args.custom_dcf_growth
           \/ args.custom_earnings_growth # prev.args.custom_earnings_growth
           \/ args.custom_weights # prev.args.custom_weights)
       => ret # prev.ret
    /\ (/\ op = "option_cache_key_second"
        /\ args.real_world_return # prev.args.real_world_return)
       => ret # prev.ret

----------------------------------------------------------------------------
\* claim C26

\* the share count the valuation divided by, where the result shows it
ShowsShares(r) == NonError(r) /\ r.per_share_value # Zero
UsedShares(r) == RDiv(r.equity_value, r.per_share_value)

\* C26: after sanitisation the base cash flow and the share count are
\* strictly positive for every input, fcf <= 0 with shares <= 0 and no
\* positive historical value included.
C26_PositiveAfterSanitisation ==
    (op = "dcf_calculate") =>
        /\ ShowsBaseFlow(ret) => RGt(BaseFlow(ret), Zero)
        /\ ShowsShares(ret) => RGt(UsedShares(ret), Zero)

----------------------------------------------------------------------------
\* claim C27

\* the rate and the drift that main hands to char_function_fft
PassedRate(a) == get_pricing_model(a.choice, a.cagr)[1]
PassedDrift(a) ==
    IF get_pricing_model(a.choice, a.cagr)[3]
    THEN get_pricing_model(a.choice, a.cagr)[2]
    ELSE get_pricing_model(a.choice, a.cagr)[1]

\* C27: for both pricing-model choices and valid K and T,
\* char_function_fft receives a defined numeric r and drift, completes
\* without error, and the option prices and probability are printed.
C27_BothModelsPrice ==
    (op \in {"main", "main_strike"} /\ RGt(args.K, Zero) /\ RGt(args.T, Zero)) =>
        /\ ~IsNone(PassedRate(args))
        /\ ~IsNone(PassedDrift(args))
        /\ ret.printed = "Option Prices and Probabilities"

----------------------------------------------------------------------------
\* claim C28

\* the step starts a call of calculate_intrinsic_value with a cache
StartsCached == op' \in CachedOps /\ op' # op

\* no call to the market-data service or to a model is in the log
NoComputation(log) ==
    \A i \in 1..Len(log) : log[i].call \notin {"market_data", "models"}

\* the log shows the market-data service and the models called, in that
\* order, before the entry was set
ComputedBeforeSet(log) ==
    \E i, j, k \in 1..Len(log) :
        /\ i < j /\ j < k
        /\ log[i].call = "market_data"
        /\ log[j].call = "models"
        /\ log[k].call = "cache.set"

CacheProtocolStep ==
    /\ StartsCached =>
          IF cache_get(cache, svc_cache_key(args')) # {}
          THEN /\ frame'.pc = "returned"
               /\ ret' \in cache_get(cache, svc_cache_key(args'))
               /\ NoComputation(queries')
               /\ cache' = cache
          ELSE /\ frame'.pc = "await_market_data"
               /\ cache' = cache
    /\ cache' # cache =>
          /\ op' \in CachedOps /\ op' = op
          /\ frame'.pc = "returned"
          /\ ~IsRaised(ret')
          /\ ComputedBeforeSet(queries')
          /\ cache' = {x \in cache : x.key # svc_cache_key(args)}
                      \cup {[key |-> svc_cache_key(args), value |-> ret',
                             expire |-> 3600]}
    /\ (op' \in CachedOps /\ op' = op /\ frame'.pc = "returned") =>
          [key |-> svc_cache_key(args), value |-> ret', expire |-> 3600]
              \in cache'
    /\ (op' \in CachedOps /\ frame'.pc = "raised") =>
          /\ ret' = Raised("ValueError")
          /\ cache' = cache

\* C28: with a cache, calculate_intrinsic_value returns the cached entry
\* without calling the market-data service or any model; on a miss it
\* stores the result under the same key with a TTL of 3600, and only after
\* the computation succeeded; when the computation raises, a ValueError
\* surfaces and nothing is stored.
C28_CacheProtocol == [][CacheProtocolStep]_vars

\* a second call for the same request is answered from the entry that the
\* first call stored
C28_Witness ==
    /\ op = "cached_calculate_intrinsic_value_second"
    /\ frame.pc = "returned"
    /\ args = prev.args
    /\ ~IsRaised(prev.ret) /\ ret = prev.ret
    /\ queries = <<Collaborator("cache.get")>>
    /\ [key |-> svc_cache_key(args), value |-> ret, expire |-> 3600] \in cache

----------------------------------------------------------------------------
\* claim C29

\* every provider queried so far has raised
AllFailed == \A i \in 1..Len(queries) : Has(queries[i].result, "raised")

QueriedAtMostOnce ==
    \A i, j \in 1..Len(queries) :
        queries[i].provider = queries[j].provider => i = j

QueriedExactlyOnce(providers) ==
    /\ QueriedAtMostOnce
    /\ \A i \in 1..Len(providers) : TimesQueried(providers[i]) = 1
    /\ \A i \in 1..Len(queries) : InSeq(queries[i].provider, providers)

GetCurrentPriceOutcome ==
    InGetCurrentPrice =>
        /\ QueriedAtMostOnce
        /\ ~InSeq(args.provider, args.providers) =>
              queries[1].provider = args.default_provider
        /\ frame.pc = "returned" =>
              /\ IsPrice(queries[Len(queries)].result)
              /\ ret = Price(ProviderPrice(queries[Len(queries)].provider))
        /\ frame.pc = "raised" => AllFailed /\ IsRaised(ret)
        /\ (frame.pc = "raised" /\ args.fallback) =>
              /\ ret = [raised |-> "ValueError", symbol |-> args.symbol]
              /\ QueriedExactlyOnce(args.providers)

\* C29: every call of get_current_price terminates, having queried each
\* provider at most once, and either returns a price or raises; with
\* fallback=True and every provider failing it raises the ValueError
\* 'Failed to get price for <symbol> from any provider' after each
\* provider was queried exactly once; a provider name that is not
\* configured is treated as the default provider.
C29_TerminatesAfterEachProviderOnce ==
    /\ []GetCurrentPriceOutcome
    /\ InGetCurrentPrice ~> (InGetCurrentPrice /\ Finished)

\* an unknown provider is named with fallback=True and all three
\* providers fail: the default one first, then the other two
C29_Witness ==
    /\ InGetCurrentPrice
    /\ args.provider = "nonexistent" /\ args.fallback
    /\ Len(args.providers) = 3
    /\ frame.pc = "raised"
    /\ ret = [raised |-> "ValueError", symbol |-> args.symbol]
    /\ Len(queries) = 3 /\ AllFailed
    /\ queries[1].provider = args.default_provider

----------------------------------------------------------------------------
\* claim C30

\* the DCF result the service built its response from
ServiceDcf(a) == dcf_calculate(svc_dcf_args(a))

ReportedRate(r) == r.details.dcf.discount_rate

\* C30: details.dcf.discount_rate of the service response is a number and
\* equals the rate the DCF discounted at: the clamped WACC when the CAPM
\* inputs are complete, the supplied 10% otherwise.
C30_ReportedRateIsUsedRate ==
    (op = "calculate_intrinsic_value" /\ ShowsRate(ServiceDcf(args))) =>
        /\ ~IsNone(ReportedRate(ret))
        /\ ReportedRate(ret) = UsedRate(ServiceDcf(args))
        /\ ~CapmSupplied(svc_dcf_args(args)) => ReportedRate(ret) = R(10, 100)

====
